---- MODULE Spec2Model ----
(***************************************************************************)
(* aisdk-mcp-bridge: the server supervisor (src/src/server.ts,             *)
(* MCPServerManager), the service singleton (service.ts, kept as           *)
(* src/unnamed/part_007, MCPService) and the public entry points           *)
(* (src/src/index.ts lines 268-601: initializeMcp, getMcpTools,            *)
(* cleanupMcp).                                                            *)
(*                                                                         *)
(* Node runs the code on one event loop: a step of the model is one        *)
(* synchronous run of code, from the point where a caller (or a timer, a   *)
(* process event, a network answer) is resumed to the next await that has  *)
(* to wait for the outside world.  An await on a promise that is already   *)
(* settled only yields to the micro-task queue and is not a step boundary. *)
(* The answers of the outside world (does the process stay up, does the    *)
(* health endpoint answer, does connect/list/close succeed) are chosen     *)
(* nondeterministically within what the world's fault profile allows.      *)
(***************************************************************************)
EXTENDS Integers, Sequences, FiniteSets, TLC

\* ---------------------------------------------------------------- bounds
\* API calls one caller may issue in a run.
MaxCalls == 3
\* API calls each caller makes in a run with two callers.
MaxConcCalls == 2
\* Child processes of the supervisor that may be alive at a time.
MaxSpawn == 3
\* Protocol clients that may exist at a time.
MaxClients == 3

\* ------------------------------------------------------- program constants
\* service.ts: const maxRetries = 3 (client connect attempts).
maxRetries == 3
\* service.ts: const maxToolRetries = 3 (tools/list attempts).
maxToolRetries == 3
\* server.ts: const maxReconnectAttempts = 3 (sse onerror handler).
maxReconnectAttempts == 3

\* ------------------------------------------------------------ vocabulary
NoName == ""
Callers == {"c1", "c2"}
Names == {"a", "b", "c"}
\* serverName arguments tried by the callers; "ghost" is in no configuration.
ArgNames == {NoName, "a", "b", "ghost"}

\* The tools each upstream server advertises in its tools/list answer.
Catalogue(s) ==
    CASE s = "a" -> {"t1", "shared"}
      [] s = "b" -> {"t2", "shared"}
      [] s = "c" -> {"t3"}
      [] OTHER -> {}

\* One entry of mcp.config.json (ServerConfigSchema): name, mode, disabled.
Srv(n, m, d) == [name |-> n, mode |-> m, disabled |-> d]

\* ------------------------------------------------- insertion-ordered maps
\* A JavaScript Map is a sequence of [k, v] entries in insertion order:
\* set on a present key keeps its place, set on a new key appends.
MapKeys(m) == [i \in 1..Len(m) |-> m[i].k]
MapHas(m, key) == \E i \in 1..Len(m) : m[i].k = key
MapPos(m, key) == CHOOSE i \in 1..Len(m) : m[i].k = key
MapGet(m, key) == m[MapPos(m, key)].v
MapSet(m, key, val) ==
    IF MapHas(m, key)
    THEN [i \in 1..Len(m) |-> IF m[i].k = key THEN [k |-> key, v |-> val] ELSE m[i]]
    ELSE Append(m, [k |-> key, v |-> val])
MapDelete(m, key) == SelectSeq(m, LAMBDA e : e.k # key)
KeySet(m) == {m[i].k : i \in 1..Len(m)}

\* The position of a server in a configuration, 0 when it is not configured
\* (config.mcpServers[serverName]).
CfgPos(cfg, s) ==
    IF \E i \in 1..Len(cfg) : cfg[i].name = s
    THEN CHOOSE i \in 1..Len(cfg) : cfg[i].name = s
    ELSE 0
CfgNames(cfg) == {cfg[i].name : i \in 1..Len(cfg)}
CfgEnabled(cfg) == {cfg[i].name : i \in {j \in 1..Len(cfg) : ~cfg[j].disabled}}

VARIABLES
    world,   \* the outside world of a run: config file, fault profiles, callers
    mgr,     \* MCPServerManager: exists, config, runningServers, startupPromises,
             \* streams (the EventSource last made for a name and its handler)
    procs,   \* the child processes: pid -> [name, st], a free pid is reused
    svc,     \* MCPService: serverManager, clients, tools, initialized
    conns,   \* the protocol clients: id -> [name, st], a dropped id is reused
    fr,      \* per caller: the API call in progress, its position and locals
    exited,  \* process.exit was called
    bridge   \* tools.ts: the schema being compiled, its validator, a parse

vars == <<world, mgr, procs, svc, conns, fr, exited, bridge>>

\* ------------------------------------------------------------ the world
\* Fault profile of an upstream server:
\*   "ok"           every step answers, its processes stay up;
\*   "flaky"        any step may fail or time out, any process may exit;
\*   "badCommand"   its command cannot run: processes exit, no health answer,
\*                  the stream never opens, client connect always fails;
\*   "badCatalogue" starts and connects, every tools/list request fails;
\*   "noCommand"    its executable does not exist: spawn emits 'error' on the
\*                  ChildProcess, the client transport fails to connect;
\*   "sseDrop"      works, but its event stream may drop once it is open, and
\*                  a reconnection may or may not get through;
\*   "silent"       runs and accepts connections but answers nothing: a
\*                  request without a timeout stays open, the others time out.
Profiles == {"ok", "flaky", "badCommand", "badCatalogue", "noCommand", "silent"}

\* The answers (TRUE = success) the profile of server s allows at a stage.
\* server.ts 99: the poll is axios.get with no timeout option (axios waits
\* without limit by default), so a server that never answers leaves it
\* unsettled: no answer at all.  The health check (550, 555) is the runtime's
\* fetch, which gives up by itself; stream open, connect and tools/list are
\* raced against timers.
Out(s, stage) ==
    CASE world.env[s] = "ok" -> {TRUE}
      [] world.env[s] = "flaky" -> {TRUE, FALSE}
      [] world.env[s] = "badCommand" ->
            IF stage \in {"poll", "health", "open", "connect", "tools"}
            THEN {FALSE} ELSE {TRUE}
      [] world.env[s] = "badCatalogue" ->
            IF stage = "tools" THEN {FALSE} ELSE {TRUE}
      [] world.env[s] = "noCommand" ->
            IF stage \in {"poll", "health", "connect", "tools"}
            THEN {FALSE} ELSE {TRUE}
      [] world.env[s] = "sseDrop" ->
            IF stage = "reopen" THEN {TRUE, FALSE} ELSE {TRUE}
      [] world.env[s] = "silent" ->
            CASE stage = "poll" -> {}
              [] stage \in {"health", "open", "connect", "tools"} -> {FALSE}
              [] OTHER -> {TRUE}

\* How the upstream of s may settle a tools/call request: a result, a result
\* it marks isError, or a failed request (error answer, timeout, closed).
CallAnswers(s) ==
    CASE world.env[s] = "ok" -> {"result"}
      [] world.env[s] = "flaky" -> {"result", "isError", "fail"}
      [] world.env[s] = "badCommand" -> {"fail"}
      [] world.env[s] = "badCatalogue" -> {"isError"}
      [] world.env[s] = "noCommand" -> {"fail"}
      [] world.env[s] = "sseDrop" -> {"result"}
      [] world.env[s] = "silent" -> {"fail"}

\* A process of s may exit by itself; a start of s may outlast the 30 s race.
ProcMayExit(s) == world.env[s] \in {"flaky", "badCommand"}
MayTimeOut(s) == world.env[s] \in {"flaky", "silent"}
\* The open event stream of s may report an error.
StreamMayDrop(s) == world.env[s] = "sseDrop"

AllEnv(p) == [s \in Names |-> p]
Cfg3 == <<Srv("a", "stdio", FALSE), Srv("b", "http", FALSE), Srv("c", "sse", FALSE)>>
Cfg2 == <<Srv("a", "stdio", FALSE), Srv("b", "http", FALSE)>>
CfgDisabled == <<Srv("a", "stdio", FALSE), Srv("b", "stdio", TRUE)>>
CfgA == <<Srv("a", "stdio", FALSE)>>
CfgAlt == <<Srv("b", "stdio", FALSE), Srv("c", "sse", FALSE)>>

\* cfg is what mcp.config.json in the working directory holds; alt is what
\* the file at another path holds, which a caller may name in
\* options.configPath (index.ts 385-386).
WorldAlt(cfg, alt, valid, env, callers) ==
    [cfg |-> cfg, alt |-> alt, valid |-> valid, env |-> env, callers |-> callers]
World(cfg, valid, env, callers) == WorldAlt(cfg, cfg, valid, env, callers)

\* Runs with one caller: one server of any profile among working ones, at
\* each position; a disabled server; an unreadable config file; no working
\* server at all; an sse server whose stream drops; a second configuration
\* file with other servers.
SeqWorlds ==
    {World(CfgDisabled, TRUE, AllEnv("ok"), {"c1"}),
     World(Cfg3, FALSE, AllEnv("ok"), {"c1"})}
    \cup {World(Cfg3, TRUE, [AllEnv("ok") EXCEPT ![s] = p], {"c1"}) :
            s \in Names, p \in Profiles}
    \cup {World(Cfg2, TRUE, AllEnv(p), {"c1"}) : p \in {"badCommand", "badCatalogue"}}
    \cup {World(Cfg3, TRUE, [AllEnv("ok") EXCEPT !["c"] = "sseDrop"], {"c1"})}
    \cup {WorldAlt(CfgA, CfgAlt, TRUE, AllEnv("ok"), {"c1"})}

\* Runs with two callers whose calls overlap.
ConcWorlds ==
    {World(<<Srv("a", "stdio", FALSE)>>, TRUE, AllEnv("ok"), Callers)}

\* ---------------------------------------------------------------- frames
\* A merge in which the entry already present would win, for comparison.
MergeKeepFirst(all, s) ==
    all \cup {[tool |-> t, srv |-> s] :
                t \in Catalogue(s) \ {e.tool : e \in all}}

\* ToolSet: a set of [tool, srv] entries, one per tool name.
Merge(all, s) ==
    {e \in all : e.tool \notin Catalogue(s)}
        \cup {[tool |-> t, srv |-> s] : t \in Catalogue(s)}

\* What a caller passes to a tool invocation: a tool name and arguments.
NoCall == [tool |-> NoName, args |-> NoName]
\* The arguments are "x" for {topic: "x"} and "y" for {}.
ExecCalls ==
    {[tool |-> "t1", args |-> "x"], [tool |-> "t1", args |-> "y"],
     [tool |-> "t9", args |-> "y"]}

\* The locals of the functions on a caller's stack; a function's locals are
\* reset when it returns.  res/ret keep the outcome of the last finished
\* call, prevOp/prevRes the call before it, until the next call starts.
Frame0 ==
    [op |-> "none", arg |-> NoName, pc |-> "idle", n |-> 0,
     res |-> "none", ret |-> {}, prevOp |-> "none", prevRes |-> "none",
     \* initializeMcp
     configPath |-> NoName, pend |-> {}, okSet |-> {},
     \* MCPService.initialize
     initRet |-> "none", idx |-> 0, oks |-> {}, errs |-> {}, ran |-> FALSE,
     \* MCPService.initializeServer
     isRet |-> "none", srv |-> NoName, started |-> "na", cli |-> 0, retry |-> 0,
     \* MCPService.cleanup
     clRet |-> "none", clErr |-> "none", clIdx |-> 0, clName |-> NoName,
     clCli |-> 0, stopErrs |-> {}, closeErrs |-> {}, stopped |-> {},
     closed |-> {},
     \* MCPService.getTools
     gtList |-> <<>>, gtIdx |-> 0, all |-> {},
     \* MCPService.executeFunction and a tool's execute: the call's tool
     \* name and arguments, the requests sent, the result returned
     call |-> NoCall, sent |-> <<>>, out |-> "none"]

InitOps == {"initializeMcp", "initialize"}

\* ----------------------------------------------------------- the machine
\* A step threads one record through the code it runs: the supervisor, the
\* processes, the service, the clients, every caller's frame, the caller c
\* being run and kt, the servers whose process.kill() throws in this step.
\* over is set when the step needs more processes or clients than the bounds
\* allow; such a step is not taken.
Mach(c, kt) ==
    [mgr |-> mgr, procs |-> procs, svc |-> svc, conns |-> conns, fr |-> fr,
     c |-> c, kt |-> kt, over |-> FALSE]

\* The lowest free pid or client id, 0 when the bound is reached.
FreeSlot(tab) ==
    IF \E i \in DOMAIN tab : tab[i].st = "free"
    THEN CHOOSE i \in DOMAIN tab :
            tab[i].st = "free" /\ \A j \in DOMAIN tab : tab[j].st = "free" => i <= j
    ELSE 0
Free == [name |-> NoName, st |-> "free"]

\* A client that no frame and no table entry refers to any more is garbage
\* once it is closed or was never connected; a connected one stays.
Collected(M) ==
    [i \in DOMAIN M.conns |->
        IF /\ M.conns[i].st \in {"new", "closed"}
           /\ \A c \in Callers : M.fr[c].cli # i /\ M.fr[c].clCli # i
           /\ \A j \in 1..Len(M.svc.clients) : M.svc.clients[j].v # i
        THEN Free ELSE M.conns[i]]

\* The servers whose kill may throw now: a flaky server with a process handle.
KillThrowers ==
    {s \in KeySet(mgr.runningServers) :
        MapGet(mgr.runningServers, s) # 0 /\ world.env[s] = "flaky"}

\* server.ts 122-147, 224-249: the ChildProcess gets listeners for 'close'
\* and for its output, none for 'error'.  The 'error' a failed spawn emits
\* is therefore thrown by the emitter and ends the Node process.
SpawnSt(s) == IF world.env[s] = "noCommand" THEN "errored" ELSE "alive"
Crashed(ps) == \E p \in DOMAIN ps : ps[p].st = "errored"

\* No EventSource was made for the name.  timer: the 10 s connection timer
\* of the latest EventSource (server.ts 309-320) is still to fire.
NoStream == [st |-> "none", reconnectAttempt |-> 0, timer |-> FALSE]

Commit(M) ==
    /\ ~M.over
    /\ mgr' = M.mgr
    /\ procs' = M.procs
    /\ svc' = M.svc
    /\ conns' = Collected(M)
    /\ fr' = M.fr
    /\ exited' = (exited \/ Crashed(M.procs))
    /\ UNCHANGED <<bridge, world>>

\* ------------------------------------------------------------ supervisor
\* child_process.spawn: a new process of server s under pid p.
Spawn(M, s, p) ==
    IF p = 0 THEN [M EXCEPT !.over = TRUE]
    ELSE [M EXCEPT !.procs[p] = [name |-> s, st |-> SpawnSt(s)]]

\* ChildProcess.kill(): the signal is sent, the exit follows later.
Kill(ps, p) == [ps EXCEPT ![p].st = IF @ = "alive" THEN "killed" ELSE @]

\* server.ts 570-585.  No await inside: it runs to its end when called.
\* A throwing kill is caught and logged, and the entry stays.
StopServer(M, s) ==
    IF ~MapHas(M.mgr.runningServers, s) THEN M
    ELSE LET p == MapGet(M.mgr.runningServers, s)
         IN  IF p # 0 /\ s \in M.kt THEN M
             ELSE [M EXCEPT !.procs = IF p # 0 THEN Kill(@, p) ELSE @,
                            !.mgr.runningServers = MapDelete(@, s)]

RECURSIVE StopEach(_, _, _)
StopEach(M, names, i) ==
    IF i > Len(names) THEN M
    ELSE StopEach(StopServer(M, names[i]), names, i + 1)

\* server.ts 587-590: Promise.all over the names running at the call.
StopAllServers(M) == StopEach(M, MapKeys(M.mgr.runningServers), 1)

\* server.ts 443-496, up to the first await of the mode's start function:
\* stdio spawns and registers at once (114-163), http first probes the port
\* (198-214), sse first waits for the stream to open (304-332).
StartTask(M, s, mode) ==
    CASE mode = "stdio" ->
            LET p == FreeSlot(M.procs)
            IN  [Spawn(M, s, p) EXCEPT
                    !.mgr.runningServers = MapSet(@, s, p),
                    !.mgr.startupPromises[s] = "settle"]
      [] mode = "http" -> [M EXCEPT !.mgr.startupPromises[s] = "port"]
      [] mode = "sse" -> [M EXCEPT !.mgr.startupPromises[s] = "open"]

\* server.ts 415-504 startServer, its synchronous part.  out is "yes"/"no"
\* when the answer is immediate, "pending" when the caller waits for the
\* startup promise (a new one, or the one already in flight).
StartServer(M, s) ==
    LET pos == CfgPos(M.mgr.config, s)
    IN  IF pos = 0 THEN [m |-> M, out |-> "no"]
        ELSE IF MapHas(M.mgr.runningServers, s) THEN [m |-> M, out |-> "yes"]
        ELSE IF M.mgr.startupPromises[s] # "none" THEN [m |-> M, out |-> "pending"]
        ELSE [m |-> StartTask(M, s, M.mgr.config[pos].mode), out |-> "pending"]

\* A startup promise settles with value v: every caller waiting on it (in
\* startAllServers' allSettled, or in initializeServer's race) gets v.
Resolved(frames, s, v) ==
    [c \in Callers |->
        LET f == frames[c]
        IN  IF f.pc = "im_startAll" /\ s \in f.pend
            THEN [f EXCEPT !.pend = @ \ {s},
                           !.okSet = IF v THEN @ \cup {s} ELSE @]
            ELSE IF f.pc = "is_start" /\ f.srv = s /\ f.started = "pending"
            THEN [f EXCEPT !.started = IF v THEN "yes" ELSE "no"]
            ELSE f]

\* server.ts 473-494: waitForServerReady answered healthy, the server is
\* registered again with the handle built at 451-454 (which holds no
\* process), the promise resolves true and is forgotten.
TaskSucceeds(s) ==
    /\ mgr' = [mgr EXCEPT !.runningServers = MapSet(@, s, 0),
                          !.startupPromises[s] = "none"]
    /\ fr' = Resolved(fr, s, TRUE)

\* server.ts 487-494: the start threw, the promise resolves false.
TaskFails(s) ==
    /\ mgr' = [mgr EXCEPT !.startupPromises[s] = "none"]
    /\ fr' = Resolved(fr, s, FALSE)

\* server.ts 163-178 then 473-486: the 2 s settle timer fires.  The result of
\* startStdioServer is not read by startServer (465); checkServerHealth is
\* true for stdio (558-561).
StdioSettled(s) ==
    /\ ~exited
    /\ mgr.startupPromises[s] = "settle"
    /\ TaskSucceeds(s)
    /\ UNCHANGED <<bridge, world, procs, svc, conns, exited>>

\* server.ts 198-259: the port probe answers.  Free: spawn, register with the
\* process, poll /health (waitForServer).  In use: startHttpServer returns
\* false, which startServer does not read (459), so it goes on to
\* waitForServerReady ("healthBusy": the health poll of a start that found
\* the port in use and spawned nothing).
HttpPortProbed(s) ==
    /\ ~exited
    /\ mgr.startupPromises[s] = "port"
    /\ \E free \in Out(s, "port") :
        IF free
        THEN /\ FreeSlot(procs) # 0
             /\ procs' = [procs EXCEPT ![FreeSlot(procs)] = [name |-> s, st |-> SpawnSt(s)]]
             /\ mgr' = [mgr EXCEPT
                    !.runningServers = MapSet(@, s, FreeSlot(procs)),
                    !.startupPromises[s] = "poll"]
        ELSE /\ mgr' = [mgr EXCEPT !.startupPromises[s] = "healthBusy"]
             /\ procs' = procs
    /\ exited' = Crashed(procs')
    /\ UNCHANGED <<bridge, world, svc, conns, fr>>

\* server.ts 93-112 and 262-278: waitForServer(port, 15) ends, with an answer
\* within its 15 polls or without.  Without: stopServer (269), and again the
\* false it returns is not read.
HttpPolled(s) ==
    /\ ~exited
    /\ mgr.startupPromises[s] = "poll"
    /\ \E ready \in Out(s, "poll"), kt \in SUBSET (KillThrowers \cap {s}) :
        LET M == IF ready THEN Mach("c1", kt) ELSE StopServer(Mach("c1", kt), s)
        IN  /\ mgr' = [M.mgr EXCEPT !.startupPromises[s] = "health"]
            /\ procs' = M.procs
    /\ UNCHANGED <<bridge, world, svc, conns, fr, exited>>

\* server.ts 304-379: the stream opens before the 10 s timeout (register,
\* then waitForServerReady) or the timeout closes it and the start throws.
SseOpened(s) ==
    /\ ~exited
    /\ mgr.startupPromises[s] = "open"
    /\ \E open \in Out(s, "open") :
        IF open
        THEN /\ mgr' = [mgr EXCEPT !.runningServers = MapSet(@, s, 0),
                                   !.startupPromises[s] = "health",
                                   !.streams[s] = [st |-> "open", reconnectAttempt |-> 0, timer |-> TRUE]]
             /\ fr' = fr
        ELSE TaskFails(s)
    /\ UNCHANGED <<bridge, world, procs, svc, conns, exited>>

\* server.ts 339-360: the onerror handler of an open stream.  It closes the
\* stream; below the attempt limit it counts the attempt and waits for the
\* reconnect interval, at the limit it removes the server.
SseErrored(s) ==
    /\ ~exited
    /\ mgr.streams[s].st = "open"
    /\ StreamMayDrop(s)
    /\ mgr' = IF mgr.streams[s].reconnectAttempt < maxReconnectAttempts
              THEN [mgr EXCEPT !.streams[s].st = "wait",
                               !.streams[s].timer = FALSE,
                               !.streams[s].reconnectAttempt = @ + 1]
              ELSE [mgr EXCEPT !.streams[s].st = "removed",
                               !.streams[s].timer = FALSE,
                               !.runningServers = MapDelete(@, s)]
    /\ UNCHANGED <<bridge, world, procs, svc, conns, fr, exited>>

\* server.ts 309-320: the timer made for the connection timeout is never
\* cleared.  10 s after the EventSource was made it fires although the open
\* event won the race: eventSource.close() closes the open stream, and the
\* reject settles a promise the race no longer listens to.  A closed
\* EventSource reports no error, so the handler of 339 never runs for it.
\* On a stream the error handler has closed already the timer does nothing.
ConnectionTimeoutFired(s) ==
    /\ ~exited
    /\ mgr.streams[s].st = "open"
    /\ mgr.streams[s].timer
    /\ mgr' = [mgr EXCEPT !.streams[s].st = "closed", !.streams[s].timer = FALSE]
    /\ UNCHANGED <<bridge, world, procs, svc, conns, fr, exited>>

\* server.ts 348-349 with 304-372: the interval is over and the handler
\* awaits startSseServer again.  That call makes a new EventSource; opened
\* within 10 s, it installs a handler of its own whose reconnectAttempt
\* starts at 0, and registers the server.  Otherwise it throws, the handler's
\* promise rejects with nobody to catch it: Node ends the process or only
\* warns, by version and flags.  The handler that gave up has closed its
\* stream and nothing removes the name.
SseReconnected(s) ==
    /\ ~exited
    /\ mgr.streams[s].st = "wait"
    /\ \E open \in Out(s, "reopen") :
        IF open
        THEN /\ mgr' = [mgr EXCEPT !.runningServers = MapSet(@, s, 0),
                                   !.streams[s] = [st |-> "open", reconnectAttempt |-> 0, timer |-> TRUE]]
             /\ exited' = exited
        ELSE /\ mgr' = [mgr EXCEPT !.streams[s].st = "lost"]
             /\ exited' \in BOOLEAN
    /\ UNCHANGED <<bridge, world, procs, svc, conns, fr>>

\* server.ts 506-568: waitForServerReady ends for an http or sse server, with
\* a healthy answer within its 30 polls or without.
HealthChecked(s) ==
    /\ ~exited
    /\ mgr.startupPromises[s] \in {"health", "healthBusy"}
    /\ \E healthy \in Out(s, "health") :
        IF healthy THEN TaskSucceeds(s) ELSE TaskFails(s)
    /\ UNCHANGED <<bridge, world, procs, svc, conns, exited>>

\* server.ts 143-148 and 245-250: a child process exits (killed, or by
\* itself) and its 'close' handler deletes the entry of its server name.
ProcessClosed(p) ==
    /\ ~exited
    /\ \/ procs[p].st = "killed"
       \/ procs[p].st = "alive" /\ ProcMayExit(procs[p].name)
    /\ procs' = [procs EXCEPT ![p] = Free]
    /\ mgr' = [mgr EXCEPT !.runningServers = MapDelete(@, procs[p].name)]
    /\ UNCHANGED <<bridge, world, svc, conns, fr, exited>>

\* ------------------------------------------------------- calls and returns
\* A caller starts an API call: its frame is fresh but for the call count
\* and the outcome of the call before.
ApiCall(M, op, arg) ==
    LET f == M.fr[M.c]
    IN  [M EXCEPT !.fr[M.c] =
            [Frame0 EXCEPT !.op = op, !.arg = arg, !.n = f.n + 1, !.pc = "run",
                           !.prevOp = f.op, !.prevRes = f.res]]

\* The API call returns res ("ok" or the reason it threw) and the tool set.
ApiReturn(M, res, ret) ==
    LET f == M.fr[M.c]
    IN  [M EXCEPT !.fr[M.c] =
            [Frame0 EXCEPT !.op = f.op, !.arg = f.arg, !.n = f.n,
                           !.res = res, !.ret = ret,
                           !.prevOp = f.prevOp, !.prevRes = f.prevRes,
                           !.oks = f.oks, !.errs = f.errs, !.ran = f.ran,
                           !.stopErrs = f.stopErrs, !.closeErrs = f.closeErrs,
                           !.stopped = f.stopped, !.closed = f.closed,
                           !.call = f.call, !.sent = f.sent]]

RECURSIVE CleanupCall(_, _, _), ClLoop(_), ClReturn(_), IsCall(_, _, _),
          IsAfterStart(_), IsReturn(_, _), InitLoop(_), InitReturn(_, _, _),
          GtLoop(_), GtBody(_)

\* ------------------------------------------------------ MCPService.cleanup
\* part_007 302-310: stop all servers (when a manager is set), then start
\* the loop over the client table.  ret names the caller to return to, err
\* the error that caller rethrows afterwards.  stopErrs/stopped and
\* closeErrs/closed record what this cleanup logged as failed and what it
\* released.
CleanupCall(M, ret, err) ==
    LET rs == M.mgr.runningServers
        threw == {s \in KeySet(rs) : MapGet(rs, s) # 0 /\ s \in M.kt}
        M1 == IF M.svc.serverManager THEN StopAllServers(M) ELSE M
    IN  ClLoop([M1 EXCEPT !.fr[M.c].clRet = ret, !.fr[M.c].clErr = err,
                          !.fr[M.c].clIdx = 0,
                          !.fr[M.c].stopErrs =
                              IF M.svc.serverManager THEN threw ELSE {},
                          !.fr[M.c].stopped =
                              IF M.svc.serverManager THEN KeySet(rs) \ threw ELSE {},
                          !.fr[M.c].closeErrs = {}, !.fr[M.c].closed = {}])

\* A loop that would forget to reset the flag of line 324, for comparison.
ClLoopKeepFlag(M) ==
    LET f == M.fr[M.c]
    IN  IF f.clIdx < Len(M.svc.clients)
        THEN LET e == M.svc.clients[f.clIdx + 1]
             IN  [M EXCEPT !.fr[M.c].clIdx = f.clIdx + 1,
                           !.fr[M.c].clName = e.k, !.fr[M.c].clCli = e.v,
                           !.fr[M.c].pc = "cl_close"]
        ELSE ClReturn(M)

\* part_007 311-313 and 324-326: the Map iterator yields the next entry and
\* client.close() is awaited, or the loop is over and initialized is reset.
ClLoop(M) ==
    LET f == M.fr[M.c]
    IN  IF f.clIdx < Len(M.svc.clients)
        THEN LET e == M.svc.clients[f.clIdx + 1]
             IN  [M EXCEPT !.fr[M.c].clIdx = f.clIdx + 1,
                           !.fr[M.c].clName = e.k, !.fr[M.c].clCli = e.v,
                           !.fr[M.c].pc = "cl_close"]
        ELSE ClReturn([M EXCEPT !.svc.initialized = FALSE])

\* cleanup returns to the code that called it.
ClReturn(M) ==
    LET f == M.fr[M.c]
        M1 == [M EXCEPT !.fr[M.c].clRet = "none", !.fr[M.c].clErr = "none",
                        !.fr[M.c].clIdx = 0, !.fr[M.c].clName = NoName,
                        !.fr[M.c].clCli = 0]
    IN  CASE f.clRet = "api" -> ApiReturn(M1, "ok", {})
          [] f.clRet = "cmcp" -> [M1 EXCEPT !.fr[M.c].pc = "cm_delay"]
          [] f.clRet = "is_throw" -> IsReturn(M1, f.clErr)
          [] f.clRet = "im_throw" -> ApiReturn(M1, f.clErr, {})

\* Deleting the entry at position p of the client table moves every Map
\* iterator that is at or past p one entry back.
IterShift(frames, p) ==
    [c \in Callers |->
        IF frames[c].pc = "cl_close" /\ frames[c].clIdx >= p
        THEN [frames[c] EXCEPT !.clIdx = @ - 1]
        ELSE frames[c]]

\* A close handler whose catch would sit outside the loop, so that the first
\* failing close ends the loop, for comparison.
ClClosedStopEarly(M, ok) ==
    LET f == M.fr[M.c]
    IN  IF ok
        THEN ClLoop([M EXCEPT
                !.conns[f.clCli].st = "closed",
                !.svc.clients = MapDelete(@, f.clName),
                !.svc.tools = @ \ {f.clName},
                !.fr = [(IF MapHas(M.svc.clients, f.clName)
                         THEN IterShift(@, MapPos(M.svc.clients, f.clName))
                         ELSE @)
                        EXCEPT ![M.c].closed = @ \cup {f.clName}]])
        ELSE ClReturn([M EXCEPT !.svc.initialized = FALSE])

\* part_007 313-321: client.close() settled.  Closed: the entries of that
\* server name leave clients, transports and tools.  Threw: logged, the
\* entries stay.  Either way the loop goes on.
ClClosed(M, ok) ==
    LET f == M.fr[M.c]
    IN  IF ok
        THEN ClLoop([M EXCEPT
                !.conns[f.clCli].st = "closed",
                !.svc.clients = MapDelete(@, f.clName),
                !.svc.tools = @ \ {f.clName},
                !.fr = [(IF MapHas(M.svc.clients, f.clName)
                         THEN IterShift(@, MapPos(M.svc.clients, f.clName))
                         ELSE @)
                        EXCEPT ![M.c].closed = @ \cup {f.clName}]])
        ELSE ClLoop([M EXCEPT !.fr[M.c].closeErrs = @ \cup {f.clCli}])

\* ---------------------------------------------- MCPService.initializeServer
\* part_007 66-88: startServer raced against the 30 s timer.
IsCall(M, s, ret) ==
    LET r == StartServer(M, s)
        M1 == [r.m EXCEPT !.fr[M.c].srv = s, !.fr[M.c].isRet = ret,
                          !.fr[M.c].started = r.out, !.fr[M.c].cli = 0,
                          !.fr[M.c].retry = 0, !.fr[M.c].pc = "is_start"]
    IN  IF r.out = "pending" THEN M1 ELSE IsAfterStart(M1)

\* A client creation that would not look at the table, for comparison.
IsAfterStartAlwaysNew(M) ==
    LET f == M.fr[M.c]
    IN  IF f.started = "no" THEN CleanupCall(M, "is_throw", "startFailed")
        ELSE LET i == FreeSlot(M.conns)
             IN  IF i = 0 THEN [M EXCEPT !.over = TRUE]
                 ELSE [M EXCEPT !.conns[i] = [name |-> f.srv, st |-> "new"],
                                !.fr[M.c].cli = i,
                                !.fr[M.c].retry = 0, !.fr[M.c].pc = "is_connect"]

\* A client step that would go on after a failed start, for comparison.
IsAfterStartIgnoreFailure(M) ==
    LET f == M.fr[M.c]
    IN  IF MapHas(M.svc.clients, f.srv)
        THEN [M EXCEPT !.fr[M.c].cli = MapGet(M.svc.clients, f.srv),
                       !.fr[M.c].retry = 0, !.fr[M.c].pc = "is_tools"]
        ELSE LET i == FreeSlot(M.conns)
             IN  IF i = 0 THEN [M EXCEPT !.over = TRUE]
                 ELSE [M EXCEPT !.conns[i] = [name |-> f.srv, st |-> "new"],
                                !.fr[M.c].cli = i,
                                !.fr[M.c].retry = 0, !.fr[M.c].pc = "is_connect"]

\* part_007 90-144: the start answered.  false: throw, caught at 246 where
\* the whole service is cleaned up before the error goes on.  true: build a
\* client unless the table holds one for this name, and connect it.
IsAfterStart(M) ==
    LET f == M.fr[M.c]
    IN  IF f.started = "no" THEN CleanupCall(M, "is_throw", "startFailed")
        ELSE IF MapHas(M.svc.clients, f.srv)
        THEN [M EXCEPT !.fr[M.c].cli = MapGet(M.svc.clients, f.srv),
                       !.fr[M.c].retry = 0, !.fr[M.c].pc = "is_tools"]
        ELSE LET i == FreeSlot(M.conns)
             IN  IF i = 0 THEN [M EXCEPT !.over = TRUE]
                 ELSE [M EXCEPT !.conns[i] = [name |-> f.srv, st |-> "new"],
                                !.fr[M.c].cli = i,
                                !.fr[M.c].retry = 0, !.fr[M.c].pc = "is_connect"]

\* part_007 76-88, 246-249: the 30 s timer wins the race.
IsStartTimedOut(M) == CleanupCall(M, "is_throw", "startTimeout")

\* A connect loop that would allow one attempt more, for comparison.
IsConnectedOneMore(M, ok) ==
    LET f == M.fr[M.c]
    IN  IF ok
        THEN [M EXCEPT !.conns[f.cli].st = "open",
                       !.svc.clients = MapSet(@, f.srv, f.cli),
                       !.fr[M.c].retry = 0, !.fr[M.c].pc = "is_tools"]
        ELSE IF f.retry < maxRetries
        THEN [M EXCEPT !.fr[M.c].retry = f.retry + 1,
                       !.fr[M.c].pc = "is_connWait"]
        ELSE CleanupCall(M, "is_throw", "connectFailed")

\* part_007 132-171: one connect attempt (raced against 15 s) settled.
IsConnected(M, ok) ==
    LET f == M.fr[M.c]
    IN  IF ok
        THEN [M EXCEPT !.conns[f.cli].st = "open",
                       !.svc.clients = MapSet(@, f.srv, f.cli),
                       !.fr[M.c].retry = 0, !.fr[M.c].pc = "is_tools"]
        ELSE IF f.retry + 1 < maxRetries
        THEN [M EXCEPT !.fr[M.c].retry = f.retry + 1,
                       !.fr[M.c].pc = "is_connWait"]
        ELSE CleanupCall(M, "is_throw", "connectFailed")

\* A tools/list loop that would allow one attempt more, for comparison.
IsToolsListedOneMore(M, ok) ==
    LET f == M.fr[M.c]
    IN  IF ok
        THEN IsReturn([M EXCEPT !.svc.tools = @ \cup {f.srv}], "ok")
        ELSE IF f.retry < maxToolRetries
        THEN [M EXCEPT !.fr[M.c].retry = f.retry + 1,
                       !.fr[M.c].pc = "is_toolsWait"]
        ELSE CleanupCall(M, "is_throw", "toolsFailed")

\* part_007 182-245: one tools/list attempt (raced against 10 s) settled.
IsToolsListed(M, ok) ==
    LET f == M.fr[M.c]
    IN  IF ok
        THEN IsReturn([M EXCEPT !.svc.tools = @ \cup {f.srv}], "ok")
        ELSE IF f.retry + 1 < maxToolRetries
        THEN [M EXCEPT !.fr[M.c].retry = f.retry + 1,
                       !.fr[M.c].pc = "is_toolsWait"]
        ELSE CleanupCall(M, "is_throw", "toolsFailed")

\* initializeServer returns ("ok") or throws (the reason) into initialize's
\* loop (part_007 279-287) or getTools' loop (part_007 356-375).
IsReturn(M, outcome) ==
    LET f == M.fr[M.c]
        M1 == [M EXCEPT !.fr[M.c].isRet = "none", !.fr[M.c].srv = NoName,
                        !.fr[M.c].started = "na", !.fr[M.c].cli = 0,
                        !.fr[M.c].retry = 0]
    IN  IF f.isRet = "init"
        THEN InitLoop([M1 EXCEPT
                !.fr[M.c].idx = f.idx + 1,
                !.fr[M.c].oks = IF outcome = "ok" THEN @ \cup {f.srv} ELSE @,
                !.fr[M.c].errs = IF outcome = "ok" THEN @ ELSE @ \cup {f.srv}])
        ELSE GtLoop([M1 EXCEPT
                !.fr[M.c].gtIdx = f.gtIdx + 1,
                !.fr[M.c].all =
                    IF outcome = "ok" /\ f.srv \in M.svc.tools
                    THEN Merge(@, f.srv) ELSE @])

\* --------------------------------------------------- MCPService.initialize
\* A verdict that would demand every enabled server, for comparison with
\* the one of the code below.
InitLoopAllOrNothing(M) ==
    LET f == M.fr[M.c]
        cfg == M.mgr.config
    IN  IF f.idx > Len(cfg)
        THEN IF f.errs # {}
             THEN InitReturn(M, f.initRet, "allFailed")
             ELSE InitReturn([M EXCEPT !.svc.initialized = TRUE], f.initRet, "ok")
        ELSE IF cfg[f.idx].disabled
        THEN InitLoop([M EXCEPT !.fr[M.c].idx = f.idx + 1])
        ELSE IsCall(M, cfg[f.idx].name, "init")

\* part_007 271-299: the loop over the configured servers, in configuration
\* order, skipping the disabled ones; then the verdict.
InitLoop(M) ==
    LET f == M.fr[M.c]
        cfg == M.mgr.config
    IN  IF f.idx > Len(cfg)
        THEN IF f.oks = {}
             THEN InitReturn(M, f.initRet, "allFailed")
             ELSE InitReturn([M EXCEPT !.svc.initialized = TRUE], f.initRet, "ok")
        ELSE IF cfg[f.idx].disabled
        THEN InitLoop([M EXCEPT !.fr[M.c].idx = f.idx + 1])
        ELSE IsCall(M, cfg[f.idx].name, "init")

\* An initialize without the guard of line 254, for comparison.
InitCallNoGuard(M, ret) ==
    IF ~M.svc.serverManager THEN InitReturn(M, ret, "noManager")
    ELSE InitLoop([M EXCEPT !.fr[M.c].initRet = ret, !.fr[M.c].idx = 1,
                            !.fr[M.c].oks = {}, !.fr[M.c].errs = {},
                            !.fr[M.c].ran = TRUE])

\* part_007 253-269: the guard, the configuration, the loop's locals.
\* serverManager!.getConfig() on a null manager is a TypeError.
InitCall(M, ret) ==
    IF M.svc.initialized THEN InitReturn(M, ret, "ok")
    ELSE IF ~M.svc.serverManager THEN InitReturn(M, ret, "noManager")
    ELSE InitLoop([M EXCEPT !.fr[M.c].initRet = ret, !.fr[M.c].idx = 1,
                            !.fr[M.c].oks = {}, !.fr[M.c].errs = {},
                            !.fr[M.c].ran = TRUE])

\* initialize returns or throws into initializeMcp (index.ts 429, 437-441),
\* getTools (part_007 337) or the caller of the API.
InitReturn(M, ret, outcome) ==
    LET M1 == [M EXCEPT !.fr[M.c].initRet = "none", !.fr[M.c].idx = 0]
    IN  CASE ret = "api" -> ApiReturn(M1, outcome, {})
          [] ret = "im" ->
                IF outcome = "ok" THEN ApiReturn(M1, "ok", {})
                ELSE CleanupCall(M1, "im_throw", outcome)
          [] ret = "gt" ->
                IF outcome = "ok" THEN GtBody(M1)
                ELSE ApiReturn(M1, outcome, {})

\* ----------------------------------------------------- MCPService.getTools
\* part_007 355-378: the loop over the chosen servers; a server without a
\* tool set is initialized on the spot, its error caught and logged.
GtLoop(M) ==
    LET f == M.fr[M.c]
    IN  IF f.gtIdx > Len(f.gtList) THEN ApiReturn(M, "ok", f.all)
        ELSE LET s == f.gtList[f.gtIdx]
             IN  IF s \in M.svc.tools
                 THEN GtLoop([M EXCEPT !.fr[M.c].all = Merge(@, s),
                                       !.fr[M.c].gtIdx = f.gtIdx + 1])
                 ELSE IsCall(M, s, "gtl")

\* part_007 340-347: the servers to visit; a named server must be running.
GtBody(M) ==
    LET f == M.fr[M.c]
        rs == M.mgr.runningServers
    IN  IF f.arg # NoName /\ ~MapHas(rs, f.arg)
        THEN ApiReturn(M, "notRunning", {})
        ELSE GtLoop([M EXCEPT
                !.fr[M.c].gtList = IF f.arg # NoName THEN <<f.arg>> ELSE MapKeys(rs),
                !.fr[M.c].gtIdx = 1, !.fr[M.c].all = {}])

\* part_007 328-338: lazy initialization when the service is not initialized.
GtCall(M) ==
    IF ~M.svc.initialized THEN InitCall(M, "gt") ELSE GtBody(M)

\* ------------------------------------------- tool invocation (tools/call)
\* An executeFunction that would check the tool name against the server's
\* catalogue before sending, for comparison.
ExCallChecked(M) ==
    LET f == M.fr[M.c]
    IN  IF ~MapHas(M.svc.clients, f.arg) \/ f.call.tool \notin Catalogue(f.arg)
        THEN ApiReturn(M, "noClient", {})
        ELSE LET i == MapGet(M.svc.clients, f.arg)
             IN  [M EXCEPT !.fr[M.c].cli = i,
                           !.fr[M.c].sent = Append(@, [cli |-> i, call |-> f.call]),
                           !.fr[M.c].pc = "ex_request"]

\* part_007 386-401: executeFunction looks the client up, throws without a
\* request when there is none, else sends one tools/call request with the
\* name and the arguments it was given.
ExCall(M) ==
    LET f == M.fr[M.c]
    IN  IF ~MapHas(M.svc.clients, f.arg) THEN ApiReturn(M, "noClient", {})
        ELSE LET i == MapGet(M.svc.clients, f.arg)
             IN  [M EXCEPT !.fr[M.c].cli = i,
                           !.fr[M.c].sent = Append(@, [cli |-> i, call |-> f.call]),
                           !.fr[M.c].pc = "ex_request"]

\* part_007 207-218: the execute of a tool built from a server's catalogue
\* sends one tools/call request on the client its tool set was listed with.
ProxyCall(M) ==
    LET f == M.fr[M.c]
        i == MapGet(M.svc.clients, f.arg)
    IN  [M EXCEPT !.fr[M.c].cli = i,
                  !.fr[M.c].sent = Append(@, [cli |-> i, call |-> f.call]),
                  !.fr[M.c].pc = "ex_request"]

\* part_007 392-409 and 208-217: the request settled.  An answer is
\* returned as it is (also one the upstream marked isError); a failed
\* request is logged and thrown again by executeFunction, and rejects the
\* promise of a tool's execute.
ExSettled(M, ans) ==
    IF ans = "fail" THEN ApiReturn(M, "callFailed", {})
    ELSE [ApiReturn(M, "ok", {}) EXCEPT !.fr[M.c].out = ans]

\* ------------------------------------------------ index.ts: initializeMcp
\* server.ts 381-413 startAllServers, its synchronous part: one result per
\* configured server; a disabled server is false, a running one true, every
\* other one is started and waited for.
RECURSIVE StartAllEach(_, _)
\* A startAllServers without the check of line 388, for comparison.
StartAllEachNoSkip(M, i) ==
    LET cfg == M.mgr.config
    IN  IF i > Len(cfg) THEN M
        ELSE IF MapHas(M.mgr.runningServers, cfg[i].name)
        THEN StartAllEach([M EXCEPT !.fr[M.c].okSet = @ \cup {cfg[i].name}], i + 1)
        ELSE LET r == StartServer(M, cfg[i].name)
             IN  StartAllEach(
                    [r.m EXCEPT
                        !.fr[M.c].pend =
                            IF r.out = "pending" THEN @ \cup {cfg[i].name} ELSE @,
                        !.fr[M.c].okSet =
                            IF r.out = "yes" THEN @ \cup {cfg[i].name} ELSE @],
                    i + 1)

StartAllEach(M, i) ==
    LET cfg == M.mgr.config
    IN  IF i > Len(cfg) THEN M
        ELSE IF cfg[i].disabled THEN StartAllEach(M, i + 1)
        ELSE IF MapHas(M.mgr.runningServers, cfg[i].name)
        THEN StartAllEach([M EXCEPT !.fr[M.c].okSet = @ \cup {cfg[i].name}], i + 1)
        ELSE LET r == StartServer(M, cfg[i].name)
             IN  StartAllEach(
                    [r.m EXCEPT
                        !.fr[M.c].pend =
                            IF r.out = "pending" THEN @ \cup {cfg[i].name} ELSE @,
                        !.fr[M.c].okSet =
                            IF r.out = "yes" THEN @ \cup {cfg[i].name} ELSE @],
                    i + 1)

StartAllServers(M) == StartAllEach(M, 1)

\* index.ts 400-441: startAllServers settled.  No server running: throw, and
\* the catch cleans the service up.  Otherwise service.initialize.
ImAfterStartAll(M) ==
    LET f == M.fr[M.c]
        M1 == [M EXCEPT !.fr[M.c].pend = {}, !.fr[M.c].okSet = {}]
    IN  IF f.okSet = {} THEN CleanupCall(M1, "im_throw", "noServersStarted")
        ELSE InitCall(M1, "im")

\* index.ts 366-387: the guard, then the configuration file is read.
ImCall(M) ==
    IF M.svc.initialized THEN ApiReturn(M, "ok", {})
    ELSE [M EXCEPT !.fr[M.c].pc = "im_load", !.fr[M.c].ran = TRUE]

\* index.ts 387-398 (and 437-441 when the file cannot be loaded): the
\* manager singleton takes the configuration only when it is created
\* (server.ts 55-60), the service gets the manager, the servers are started.
ImLoaded(M, valid, cfg) ==
    IF ~valid THEN CleanupCall(M, "im_throw", "loadFailed")
    ELSE LET M1 == [M EXCEPT
                    !.mgr.exists = TRUE,
                    !.mgr.config = IF M.mgr.exists THEN @ ELSE cfg,
                    !.svc.serverManager = TRUE]
             M2 == StartAllServers(M1)
         IN  IF M2.fr[M.c].pend = {} THEN ImAfterStartAll(M2)
             ELSE [M2 EXCEPT !.fr[M.c].pc = "im_startAll"]

\* -------------------------------------------------- index.ts: getMcpTools
\* index.ts 447-483: not initialized throws; a named server must be in the
\* configuration; then service.getTools.
GmtCall(M) ==
    LET f == M.fr[M.c]
    IN  IF ~M.svc.initialized THEN ApiReturn(M, "notInitialized", {})
        ELSE IF f.arg # NoName /\ CfgPos(M.mgr.config, f.arg) = 0
        THEN ApiReturn(M, "notFound", {})
        ELSE GtCall(M)

\* ----------------------------------------------------------------- steps
\* The caller c runs the code Op from where it is, with any choice of the
\* kills that throw.
Step(c, Op(_)) == \E kt \in SUBSET KillThrowers : Commit(Op(Mach(c, kt)))

CanCall(c) ==
    /\ ~exited
    /\ c \in world.callers
    /\ fr[c].pc = "idle"
    /\ fr[c].n < (IF Cardinality(world.callers) = 1 THEN MaxCalls ELSE MaxConcCalls)

Running(c, pc) == ~exited /\ fr[c].pc = pc

\* index.ts 385-386: the paths a caller may pass as options.configPath; none
\* is mcp.config.json in the working directory.
ConfigPaths == IF world.alt = world.cfg THEN {NoName} ELSE {NoName, "alt"}
\* index.ts 316-325 loadMcpConfig: what the file at the path holds.
loadMcpConfig(configPath) == IF configPath = "alt" THEN world.alt ELSE world.cfg

\* index.ts 366: initializeMcp(options)
CallInitializeMcp(c) ==
    /\ CanCall(c)
    /\ \E p \in ConfigPaths :
        Step(c, LAMBDA M : ImCall([ApiCall(M, "initializeMcp", NoName)
                                    EXCEPT !.fr[M.c].configPath = p]))

\* index.ts 447: getMcpTools({serverName})
CallGetMcpTools(c) ==
    /\ CanCall(c)
    /\ \E a \in ArgNames :
        Step(c, LAMBDA M : GmtCall(ApiCall(M, "getMcpTools", a)))

\* index.ts 519-535: cleanupMcp() awaits service.cleanup()
CallCleanupMcp(c) ==
    /\ CanCall(c)
    /\ Step(c, LAMBDA M : CleanupCall(ApiCall(M, "cleanupMcp", NoName), "cmcp", "none"))

\* part_007 253: mcpService.initialize()
CallInitialize(c) ==
    /\ CanCall(c)
    /\ Step(c, LAMBDA M : InitCall(ApiCall(M, "initialize", NoName), "api"))

\* part_007 328: mcpService.getTools({serverName})
CallGetTools(c) ==
    /\ CanCall(c)
    /\ \E a \in ArgNames :
        Step(c, LAMBDA M : GtCall(ApiCall(M, "getTools", a)))

\* part_007 302: mcpService.cleanup()
CallCleanup(c) ==
    /\ CanCall(c)
    /\ Step(c, LAMBDA M : CleanupCall(ApiCall(M, "cleanup", NoName), "api", "none"))

\* part_007 381 / index.ts 507: executeFunction(serverName, tool, args)
CallExecuteFunction(c) ==
    /\ CanCall(c)
    /\ \E a \in ArgNames \ {NoName}, x \in ExecCalls :
        Step(c, LAMBDA M :
            ExCall([ApiCall(M, "executeFunction", a) EXCEPT !.fr[c].call = x]))

\* part_007 207: tools[name].execute(args) of a tool of server s that the
\* service holds in its tool sets
CallToolExecute(c) ==
    /\ CanCall(c)
    /\ \E s \in svc.tools, x \in ExecCalls :
        /\ MapHas(svc.clients, s)
        /\ x.tool \in Catalogue(s)
        /\ Step(c, LAMBDA M :
            ProxyCall([ApiCall(M, "toolExecute", s) EXCEPT !.fr[c].call = x]))

\* part_007 392 / 208: the tools/call request settled
ToolCallSettled(c) ==
    /\ Running(c, "ex_request")
    /\ \E ans \in (IF conns[fr[c].cli].st = "closed" THEN {"fail"}
                   ELSE CallAnswers(fr[c].arg)) :
        Step(c, LAMBDA M : ExSettled(M, ans))

\* index.ts 387: loadMcpConfig settled
ConfigLoaded(c) ==
    /\ Running(c, "im_load")
    /\ Step(c, LAMBDA M : ImLoaded(M, world.valid, loadMcpConfig(fr[c].configPath)))

\* index.ts 397: every startup promise this call waits for has settled
StartAllSettled(c) ==
    /\ Running(c, "im_startAll")
    /\ fr[c].pend = {}
    /\ Step(c, ImAfterStartAll)

\* part_007 85-88: the awaited start settled
ServerStarted(c) ==
    /\ Running(c, "is_start")
    /\ fr[c].started \in {"yes", "no"}
    /\ Step(c, IsAfterStart)

\* part_007 76-82: the 30 s start timer fires first
ServerStartTimeout(c) ==
    /\ Running(c, "is_start")
    /\ fr[c].started = "pending"
    /\ MayTimeOut(fr[c].srv)
    /\ Step(c, IsStartTimedOut)

\* part_007 144: client.connect settled, or its 15 s timer fired
ClientConnected(c) ==
    /\ Running(c, "is_connect")
    /\ \E ok \in Out(fr[c].srv, "connect") :
        Step(c, LAMBDA M : IsConnected(M, ok))

\* part_007 162: the 2 s wait before the next connect attempt is over
ConnectRetry(c) ==
    /\ Running(c, "is_connWait")
    /\ fr' = [fr EXCEPT ![c].pc = "is_connect"]
    /\ UNCHANGED <<bridge, world, mgr, procs, svc, conns, exited>>

\* part_007 194-197: tools/list settled, or its 10 s timer fired.  A request
\* on a closed client fails.
ToolsListed(c) ==
    /\ Running(c, "is_tools")
    /\ \E ok \in (IF conns[fr[c].cli].st = "closed" THEN {FALSE}
                  ELSE Out(fr[c].srv, "tools")) :
        Step(c, LAMBDA M : IsToolsListed(M, ok))

\* part_007 236: the 2 s wait before the next tools/list attempt is over
ToolsRetry(c) ==
    /\ Running(c, "is_toolsWait")
    /\ fr' = [fr EXCEPT ![c].pc = "is_tools"]
    /\ UNCHANGED <<bridge, world, mgr, procs, svc, conns, exited>>

\* part_007 313: client.close() settled
ClientClosed(c) ==
    /\ Running(c, "cl_close")
    /\ \E ok \in Out(fr[c].clName, "close") :
        Step(c, LAMBDA M : ClClosed(M, ok))

\* index.ts 544-549: after cleanup and a 1 s delay, process.exit(0)
CleanupMcpExit(c) ==
    /\ Running(c, "cm_delay")
    /\ exited' = TRUE
    /\ fr' = [fr EXCEPT ![c].pc = "exited"]
    /\ UNCHANGED <<bridge, world, mgr, procs, svc, conns>>

\* index.ts 525-532: cleanup did not finish within 15 s, process.exit(1)
CleanupMcpTimeout(c) ==
    /\ Running(c, "cl_close")
    /\ fr[c].op = "cleanupMcp"
    /\ MayTimeOut(fr[c].clName)
    /\ exited' = TRUE
    /\ fr' = [fr EXCEPT ![c].pc = "exited"]
    /\ UNCHANGED <<bridge, world, mgr, procs, svc, conns>>

\* ---------------------------------------------------- tools.ts: schema bridge
\* JSON Schema documents, as far as jsonSchemaToZod looks at them.  t is the
\* document's shape: "undefined" (no schema), "true" (a boolean schema),
\* a type name, "none" (an object without type), "bogus" (a type name the
\* switch does not know), "typeList" (type is an array of names),
\* "stringEnum" ({type: 'string', enum: ['x', 'y']}), "objectNoProps"
\* ({type: 'object'}), "badRequired" ({type: 'object', properties: {},
\* required: 5}, on which new Set(required) throws), "object", "array"
\* (items one schema), "tuple" (items a list), "arrayNoItems", "oneOf"
\* (oneOf or anyOf with its branches, and the document's own type in base).
S(t) == [t |-> t]
Obj(props, req) == [t |-> "object", properties |-> props, required |-> req]
Arr(items) == [t |-> "array", items |-> items]
Tuple(items) == [t |-> "tuple", items |-> items]
OneOf(branches, base) == [t |-> "oneOf", of |-> branches, base |-> base]
Prop(key, value) == [key |-> key, value |-> value]

\* zod validators.
Z(v) == [v |-> v]
ZAny == Z("any")
ZThrow == Z("THROW")
ZEnum == [v |-> "enum", vals |-> {"x", "y"}]
ZOptional(z) == [v |-> "optional", of |-> z]
ZArray(z) == [v |-> "array", of |-> z]
ZUnion(zs) == [v |-> "union", of |-> zs]
ZObject(shape) == [v |-> "object", shape |-> shape]
\* z.object({url: z.string(), headers: z.record(z.string()).optional()})
ZWebhook ==
    ZObject(<<Prop("url", Z("string")),
              Prop("headers", ZOptional(Z("recordOfString")))>>)

RECURSIVE jsonSchemaToZod(_), createSchemaForType(_), ShapeOf(_, _, _), MapCompile(_, _)

\* A compiler without the try/catch of lines 90 and 116-122, for comparison.
jsonSchemaToZodNoCatch(schema) ==
    IF schema.t \in {"undefined", "true"} THEN ZAny
    ELSE IF schema.t = "oneOf"
    THEN LET subSchemas == MapCompile(SelectSeq(schema.of, LAMBDA b : b.t # "true"), 1)
         IN  IF Len(subSchemas) = 0
             THEN IF schema.base.t # "none"
                  THEN createSchemaForType(schema.base) ELSE ZAny
             ELSE IF Len(subSchemas) = 1 THEN subSchemas[1]
             ELSE ZUnion(subSchemas)
    ELSE createSchemaForType(schema)

\* A compiler that would not collapse a single branch, for comparison.
jsonSchemaToZodAlwaysUnion(schema) ==
    IF schema.t \in {"undefined", "true"} THEN ZAny
    ELSE LET r ==
                IF schema.t = "oneOf"
                THEN LET subSchemas ==
                            MapCompile(SelectSeq(schema.of, LAMBDA b : b.t # "true"), 1)
                     IN  IF Len(subSchemas) = 0
                         THEN IF schema.base.t # "none"
                              THEN createSchemaForType(schema.base) ELSE ZAny
                         ELSE ZUnion(subSchemas)
                ELSE createSchemaForType(schema)
         IN  IF r = ZThrow THEN ZAny ELSE r

\* tools.ts 77-123.  Whatever is thrown between 90 and 115 is caught at 116
\* and answered with createDefaultSchema().
jsonSchemaToZod(schema) ==
    IF schema.t \in {"undefined", "true"} THEN ZAny
    ELSE LET r ==
                IF schema.t = "oneOf"
                THEN LET subSchemas ==
                            MapCompile(SelectSeq(schema.of, LAMBDA b : b.t # "true"), 1)
                     IN  IF Len(subSchemas) = 0
                         THEN IF schema.base.t # "none"
                              THEN createSchemaForType(schema.base) ELSE ZAny
                         ELSE IF Len(subSchemas) = 1 THEN subSchemas[1]
                         ELSE ZUnion(subSchemas)
                ELSE createSchemaForType(schema)
         IN  IF r = ZThrow THEN ZAny ELSE r

\* schemas.map(s => jsonSchemaToZod(s)) from position i on (94-97, 198).
MapCompile(schemas, i) ==
    IF i > Len(schemas) THEN <<>>
    ELSE <<jsonSchemaToZod(schemas[i])>> \o MapCompile(schemas, i + 1)

\* tools.ts 166-189: the loop over Object.entries(schema.properties), from
\* entry i on.  The catch of 182 gives the property z.any().
ShapeOf(props, required, i) ==
    IF i > Len(props) THEN <<>>
    ELSE LET key == props[i].key
             propertySchema == jsonSchemaToZod(props[i].value)
             z == IF key = "webhook" THEN ZWebhook
                  ELSE IF propertySchema = ZThrow THEN ZAny
                  ELSE IF key \in required THEN propertySchema
                  ELSE ZOptional(propertySchema)
         IN  <<Prop(key, z)>> \o ShapeOf(props, required, i + 1)

\* tools.ts 126-222: the switch on schema.type.
createSchemaForType(schema) ==
    CASE schema.t = "string" -> Z("string")
      [] schema.t = "stringEnum" -> ZEnum
      [] schema.t \in {"number", "integer"} -> Z("number")
      [] schema.t = "boolean" -> Z("boolean")
      [] schema.t = "objectNoProps" -> Z("record")
      [] schema.t = "badRequired" -> ZThrow
      [] schema.t = "object" -> ZObject(ShapeOf(schema.properties, schema.required, 1))
      [] schema.t = "arrayNoItems" -> ZArray(ZAny)
      [] schema.t = "array" -> ZArray(jsonSchemaToZod(schema.items))
      [] schema.t = "tuple" -> ZArray(ZUnion(MapCompile(schema.items, 1)))
      [] schema.t = "null" -> Z("null")
      [] OTHER -> ZAny

\* JSON values handed to a validator; "undefined" is an absent value.
J(j) == [j |-> j]
JString(s) == [j |-> "string", s |-> s]
JObject(fields) == [j |-> "object", fields |-> fields]
JArray(items) == [j |-> "array", items |-> items]

\* value[key] of a JSON object.
Field(value, key) ==
    IF \E i \in 1..Len(value.fields) : value.fields[i].key = key
    THEN value.fields[CHOOSE i \in 1..Len(value.fields) : value.fields[i].key = key].value
    ELSE J("undefined")

\* zod: validator.safeParse(value).success.  An object validator made with
\* passthrough() lets unknown keys through; any and optional take undefined.
RECURSIVE Accepts(_, _)
Accepts(z, value) ==
    CASE z.v = "any" -> TRUE
      [] z.v = "string" -> value.j = "string"
      [] z.v = "enum" -> value.j = "string" /\ value.s \in z.vals
      [] z.v = "number" -> value.j = "number"
      [] z.v = "boolean" -> value.j = "boolean"
      [] z.v = "null" -> value.j = "null"
      [] z.v = "record" -> value.j = "object"
      [] z.v = "recordOfString" ->
            /\ value.j = "object"
            /\ \A i \in 1..Len(value.fields) : value.fields[i].value.j = "string"
      [] z.v = "optional" -> value.j = "undefined" \/ Accepts(z.of, value)
      [] z.v = "array" ->
            /\ value.j = "array"
            /\ \A i \in 1..Len(value.items) : Accepts(z.of, value.items[i])
      [] z.v = "union" -> \E i \in 1..Len(z.of) : Accepts(z.of[i], value)
      [] z.v = "object" ->
            /\ value.j = "object"
            /\ \A i \in 1..Len(z.shape) :
                    Accepts(z.shape[i].value, Field(value, z.shape[i].key))
      [] OTHER -> FALSE

\* The inputSchema a server's catalogue gives for a tool: t1 declares
\* {type: object, properties: {topic: {type: string}}, required: [topic]},
\* the other tools declare none.
ToolSchema(t) ==
    IF t = "t1" THEN Obj(<<Prop("topic", S("string"))>>, {"topic"})
    ELSE S("undefined")

\* part_007 203-206: the parameters of the tool object built for the tool.
Parameters(t) == jsonSchemaToZod(ToolSchema(t))

\* The JSON value of a call's arguments.
ArgValue(x) ==
    IF x = "x" THEN JObject(<<Prop("topic", JString("x"))>>) ELSE JObject(<<>>)

\* The schemas a tools/list answer may carry, up to two levels deep.
LeafSchemas ==
    {S(t) : t \in {"undefined", "true", "string", "stringEnum", "number",
                   "integer", "boolean", "null", "none", "bogus", "typeList",
                   "objectNoProps", "badRequired", "arrayNoItems"}}
FewSchemas == {S("string"), S("number"), S("bogus"), S("badRequired")}
PropKeys == {"topic", "webhook"}
ObjectSchemas ==
    {Obj(<<Prop(k, v)>>, req) :
        k \in PropKeys, v \in LeafSchemas, req \in SUBSET {"topic", "webhook"}}
    \cup {Obj(<<Prop("topic", v), Prop("webhook", w)>>, req) :
            v \in FewSchemas, w \in FewSchemas, req \in SUBSET PropKeys}
ArraySchemas ==
    {Arr(v) : v \in LeafSchemas}
    \cup {Tuple(<<>>)}
    \cup {Tuple(<<v, w>>) : v \in FewSchemas, w \in FewSchemas}
OneOfSchemas ==
    {OneOf(bs, base) :
        bs \in {<<>>, <<S("true")>>, <<S("true"), S("true")>>}
               \cup {<<v>> : v \in FewSchemas}
               \cup {<<S("true"), v>> : v \in FewSchemas}
               \cup {<<v, w>> : v \in FewSchemas, w \in FewSchemas},
        base \in {S("none"), S("string"), S("badRequired")}}
NestedSchemas ==
    {Obj(<<Prop("topic", v)>>, req) :
        v \in {Obj(<<Prop("topic", w)>>, {"topic"}) : w \in FewSchemas}
              \cup {Arr(S("badRequired")), OneOf(<<S("string"), S("null")>>, S("none")),
                    OneOf(<<>>, S("badRequired"))},
        req \in SUBSET {"topic"}}
InputSchemas ==
    LeafSchemas \cup ObjectSchemas \cup ArraySchemas \cup OneOfSchemas
    \cup NestedSchemas

\* The argument values a caller may hand to a compiled validator.
InputArgs ==
    {J("undefined"), J("number"), JString("x"), JString("z"), J("null"),
     JArray(<<>>), JArray(<<JString("x"), J("number")>>),
     JObject(<<>>),
     JObject(<<Prop("topic", JString("x"))>>),
     JObject(<<Prop("topic", J("number"))>>),
     JObject(<<Prop("other", JString("x"))>>),
     JObject(<<Prop("webhook", JString("x"))>>),
     JObject(<<Prop("webhook", JObject(<<Prop("url", JString("x"))>>))>>),
     JObject(<<Prop("topic", JString("x")),
               Prop("webhook", JObject(<<Prop("url", JString("x"))>>))>>)}

\* The bridge at rest: nothing to compile.
NoBridge ==
    [pc |-> "off", schema |-> S("undefined"), zod |-> ZAny,
     args |-> J("undefined"), ok |-> FALSE]

\* tools.ts 77: jsonSchemaToZod(schema) is called and returns or throws.
Compile ==
    /\ bridge.pc = "input"
    /\ LET z == jsonSchemaToZod(bridge.schema)
       IN  bridge' = IF z = ZThrow
                     THEN [bridge EXCEPT !.pc = "threw"]
                     ELSE [bridge EXCEPT !.pc = "compiled", !.zod = z]
    /\ UNCHANGED <<world, mgr, procs, svc, conns, fr, exited>>

\* The compiled validator parses an argument value.
Parse ==
    /\ bridge.pc = "compiled"
    /\ \E a \in InputArgs :
        bridge' = [bridge EXCEPT !.pc = "parsed", !.args = a,
                                 !.ok = Accepts(bridge.zod, a)]
    /\ UNCHANGED <<world, mgr, procs, svc, conns, fr, exited>>

\* ------------------------------------------------------- specifications
\* The state after module load: the service singleton is constructed
\* (part_007 32-37, 427), no manager exists yet, nothing runs.
InitState ==
    /\ mgr = [exists |-> FALSE, config |-> <<>>, runningServers |-> <<>>,
              startupPromises |-> [s \in Names |-> "none"],
              streams |-> [s \in Names |-> NoStream]]
    /\ procs = [p \in 1..MaxSpawn |-> Free]
    /\ svc = [serverManager |-> FALSE, clients |-> <<>>, tools |-> {},
              initialized |-> FALSE]
    /\ conns = [i \in 1..MaxClients |-> Free]
    /\ fr = [c \in Callers |-> Frame0]
    /\ exited = FALSE

Init == world \in SeqWorlds /\ InitState /\ bridge = NoBridge
InitConc == world \in SeqWorlds \cup ConcWorlds /\ InitState /\ bridge = NoBridge

Next ==
    \/ \E c \in Callers : CallInitializeMcp(c)
    \/ \E c \in Callers : CallGetMcpTools(c)
    \/ \E c \in Callers : CallCleanupMcp(c)
    \/ \E c \in Callers : CallInitialize(c)
    \/ \E c \in Callers : CallGetTools(c)
    \/ \E c \in Callers : CallCleanup(c)
    \/ \E c \in Callers : ConfigLoaded(c)
    \/ \E c \in Callers : StartAllSettled(c)
    \/ \E c \in Callers : ServerStarted(c)
    \/ \E c \in Callers : ServerStartTimeout(c)
    \/ \E c \in Callers : ClientConnected(c)
    \/ \E c \in Callers : ConnectRetry(c)
    \/ \E c \in Callers : ToolsListed(c)
    \/ \E c \in Callers : ToolsRetry(c)
    \/ \E c \in Callers : ClientClosed(c)
    \/ \E c \in Callers : CallExecuteFunction(c)
    \/ \E c \in Callers : CallToolExecute(c)
    \/ \E c \in Callers : ToolCallSettled(c)
    \/ \E c \in Callers : CleanupMcpExit(c)
    \/ \E c \in Callers : CleanupMcpTimeout(c)
    \/ \E s \in Names : StdioSettled(s)
    \/ \E s \in Names : HttpPortProbed(s)
    \/ \E s \in Names : HttpPolled(s)
    \/ \E s \in Names : SseOpened(s)
    \/ \E s \in Names : HealthChecked(s)
    \/ \E s \in Names : SseErrored(s)
    \/ \E s \in Names : SseReconnected(s)
    \/ \E s \in Names : ConnectionTimeoutFired(s)
    \/ \E p \in 1..MaxSpawn : ProcessClosed(p)

\* One caller at a time.
Spec == Init /\ [][Next]_vars
\* Also two callers whose calls overlap.
SpecConc == InitConc /\ [][Next]_vars

\* The schema bridge by itself: one schema of a catalogue is compiled, then
\* the validator parses one argument value.  Nothing else runs.
InitSchema ==
    /\ world = World(Cfg3, TRUE, AllEnv("ok"), {"c1"})
    /\ InitState
    /\ bridge \in {[NoBridge EXCEPT !.pc = "input", !.schema = s] : s \in InputSchemas}
NextSchema == Compile \/ Parse
SpecSchema == InitSchema /\ [][NextSchema]_vars

\* ================================================================ claims
\* The pcs at which a call has passed the guards of initializeMcp and has
\* called startAllServers, or is inside the loop of initialize.
StartWork == {"im_startAll", "is_start", "is_connect", "is_connWait",
              "is_tools", "is_toolsWait"}

\* The call of caller c returns in this step (at once or after waiting).
Returns(c, op) ==
    /\ fr'[c].op = op
    /\ fr'[c].pc = "idle"
    /\ fr[c].pc # "idle" \/ fr'[c].n # fr[c].n

\* The call of caller c starts in this step.
Calls(c, op) ==
    /\ fr[c].pc = "idle"
    /\ fr'[c].n = fr[c].n + 1
    /\ fr'[c].op = op

ToolNames(ts) == {e.tool : e \in ts}

\* C1: when initialize (initializeMcp / MCPService.initialize) is called
\* while another caller's initialize is still in flight, only one call does
\* the start work (one startAll), and no two connected clients exist for
\* one server.
C1_SingleFlight ==
    /\ \A c, d \in Callers :
        (c # d /\ fr[c].op \in InitOps /\ fr[d].op \in InitOps)
            => ~(fr[c].pc \in StartWork /\ fr[d].pc \in StartWork)
    /\ \A i, j \in DOMAIN conns :
        (i # j /\ conns[i].st = "open" /\ conns[j].st = "open")
            => conns[i].name # conns[j].name

\* Scenario A's worlds: three enabled servers, exactly one of them broken
\* for good (its command cannot run, or its catalogue cannot be fetched).
Broken == {s \in Names : world.env[s] \in {"badCommand", "badCatalogue"}}
ScenarioA ==
    /\ world.cfg = Cfg3
    /\ world.valid
    /\ Cardinality(Broken) = 1
    /\ \A s \in Names \ Broken : world.env[s] = "ok"

\* C2: in Scenario A initializeMcp succeeds, and a following getTools() with
\* no server name returns the union of the tools of the working servers,
\* wherever the broken server stands in the configuration.
C2_ScenarioAUnion ==
    \A c \in Callers :
        (ScenarioA /\ fr[c].pc = "idle" /\ fr[c].n <= 2) =>
            /\ (fr[c].op = "initializeMcp" /\ fr[c].n = 1) => fr[c].res = "ok"
            /\ (fr[c].op \in {"getTools", "getMcpTools"} /\ fr[c].arg = NoName
                    /\ fr[c].prevOp = "initializeMcp") =>
                /\ fr[c].res = "ok"
                /\ ToolNames(fr[c].ret) = UNION {Catalogue(s) : s \in Names \ Broken}

C4_ReadyNoOp ==
    [][\A c \in Callers :
        (svc.initialized /\ (Calls(c, "initialize") \/ Calls(c, "initializeMcp")))
            => /\ mgr' = mgr /\ procs' = procs /\ svc' = svc /\ conns' = conns
               /\ fr'[c].pc = "idle" /\ fr'[c].res = "ok"]_vars

\* initialize was called on a Ready service holding clients and tools.
C4_Witness ==
    \E c \in Callers :
        /\ fr[c].pc = "idle" /\ fr[c].op \in InitOps /\ ~fr[c].ran
        /\ fr[c].res = "ok" /\ fr[c].n >= 2
        /\ svc.initialized /\ svc.tools # {} /\ svc.clients # <<>>

\* C5: cleanup() is safe whenever it is called: it returns without error
\* and leaves the service not initialized, also as the second cleanup in a
\* row, before any initialize, and after an initialize that failed.
C5_CleanupSafe ==
    \A c \in Callers :
        (fr[c].pc = "idle" /\ fr[c].op = "cleanup") =>
            fr[c].res = "ok" /\ ~svc.initialized

\* An initialize failed, then cleanup() returned twice in a row.
C5_Witness ==
    \E c \in Callers :
        /\ fr[c].pc = "idle" /\ fr[c].op = "cleanup" /\ fr[c].prevOp = "cleanup"
        /\ fr[c].n = 3 /\ mgr.exists /\ ~svc.initialized
        /\ world.valid /\ CfgNames(world.cfg) \subseteq Broken

\* C6: when cleanup() returns, the running set, the client table and the
\* tool sets are empty, also when a close or a stop failed.
C6_AllReleased ==
    [][\A c \in Callers :
        Returns(c, "cleanup") =>
            /\ mgr'.runningServers = <<>>
            /\ svc'.clients = <<>>
            /\ svc'.tools = {}]_vars

\* C7: cleanup never stops early and never fails.  When it is called, every
\* running server is stopped (out of the running set, its process killed)
\* or its stop error is logged; when it returns, every client left in the
\* table is one whose close error was logged, so every client was closed or
\* tried; and it returns without error.
C7_NoEarlyStop ==
    [][\A c \in Callers :
        /\ (Calls(c, "cleanup") /\ svc.serverManager) =>
                \A i \in 1..Len(mgr.runningServers) :
                    LET e == mgr.runningServers[i]
                    IN  \/ e.k \in fr'[c].stopErrs
                        \/ /\ ~MapHas(mgr'.runningServers, e.k)
                           /\ e.v # 0 => procs'[e.v].st # "alive"
        /\ Returns(c, "cleanup") =>
                /\ fr'[c].res = "ok"
                /\ \A i \in 1..Len(svc'.clients) :
                        svc'.clients[i].v \in fr'[c].closeErrs]_vars

\* A cleanup returned after one stop and one close failed and the other
\* servers were stopped and the other clients closed.
C7_Witness ==
    \E c \in Callers :
        /\ fr[c].pc = "idle" /\ fr[c].op = "cleanup" /\ fr[c].res = "ok"
        /\ fr[c].stopErrs # {} /\ fr[c].stopped # {}
        /\ fr[c].closeErrs # {} /\ Cardinality(fr[c].closed) = 2

\* C8: after initialize reached Ready and cleanupMcp() completed, control is
\* back at the caller, which can initialize again: the call does not end
\* the process.
C8_ControlReturns ==
    \A c \in Callers :
        (fr[c].op = "cleanupMcp" /\ fr[c].prevOp \in InitOps /\ fr[c].prevRes = "ok")
            => fr[c].pc # "exited" /\ ~exited

\* C9: getTools on a service that was never initialized initializes it
\* first; it does not fail for the lack of an earlier initialize.
C9_LazyInit ==
    \A c \in Callers :
        (fr[c].pc = "idle" /\ fr[c].op \in {"getTools", "getMcpTools"}) =>
            fr[c].res \notin {"notInitialized", "noManager"}

\* C10: getTools with a server name fails with a reason of its own for each
\* cause: absent from the configuration "not found", configured but
\* disabled "disabled", configured and enabled but not running "not running".
C10_DistinctReasons ==
    \A c \in Callers :
        (fr[c].pc = "idle" /\ fr[c].op = "getMcpTools" /\ fr[c].arg # NoName
                /\ fr[c].res \notin {"ok", "notInitialized"}) =>
            LET i == CfgPos(mgr.config, fr[c].arg)
            IN  /\ i = 0 <=> fr[c].res = "notFound"
                /\ (i # 0 /\ mgr.config[i].disabled) <=> fr[c].res = "disabled"
                /\ (i # 0 /\ ~mgr.config[i].disabled) <=> fr[c].res = "notRunning"

\* The merged tool set of the running servers rs that hold a tool set: each
\* tool name once, from the server registered last among those offering it.
LastWins(rs) ==
    UNION {{[tool |-> t, srv |-> rs[j].k] :
                t \in {u \in Catalogue(rs[j].k) :
                        \A k \in (j + 1)..Len(rs) : u \notin Catalogue(rs[k].k)}} :
           j \in 1..Len(rs)}

C12_InBandErrors ==
    \A c \in Callers :
        (fr[c].pc = "idle" /\ fr[c].op \in {"executeFunction", "toolExecute"}
                /\ fr[c].sent # <<>>) =>
            /\ fr[c].res = "ok"
            /\ fr[c].out \in {"result", "isError"}

\* C13: executeFunction without a client for the server name throws and
\* sends nothing; with a client it sends one request on that client, with
\* the tool name and arguments as given, whatever they are, and returns the
\* answer of that request.
C13_DirectInvocation ==
    [][\A c \in Callers :
        /\ Calls(c, "executeFunction") =>
            IF MapHas(svc.clients, fr'[c].arg)
            THEN /\ fr'[c].pc = "ex_request"
                 /\ fr'[c].sent = <<[cli |-> MapGet(svc.clients, fr'[c].arg),
                                     call |-> fr'[c].call]>>
            ELSE /\ fr'[c].pc = "idle"
                 /\ fr'[c].res = "noClient"
                 /\ fr'[c].sent = <<>>
        /\ (fr[c].pc = "ex_request" /\ fr[c].op = "executeFunction"
                /\ fr'[c].pc = "idle") =>
            /\ fr'[c].sent = fr[c].sent /\ fr'[c].call = fr[c].call
            /\ fr'[c].res \in {"ok", "callFailed"}
            /\ fr'[c].res = "ok" <=> fr'[c].out \in CallAnswers(fr[c].arg) \ {"fail"}
        /\ Calls(c, "executeFunction") =>
            svc' = svc /\ mgr' = mgr /\ procs' = procs]_vars

\* executeFunction returned the answer to a request for a tool name that no
\* catalogue holds.
C13_Witness ==
    \E c \in Callers :
        /\ fr[c].pc = "idle" /\ fr[c].op = "executeFunction"
        /\ fr[c].res = "ok" /\ fr[c].out = "result"
        /\ Len(fr[c].sent) = 1 /\ fr[c].sent[1].call.tool = "t9"
        /\ fr[c].sent[1].call.args = "y"

\* The servers the supervisor's configuration marks disabled.
Disabled == CfgNames(mgr.config) \ CfgEnabled(mgr.config)

\* C14: a disabled server is never started: it has no process and no
\* startup in flight, it is not in the running set, startAllServers waits
\* for nothing of it and its outcome is not a success, and the service has
\* no client and no tool set for it.
C14_DisabledNeverStarted ==
    \A s \in Disabled :
        /\ \A p \in DOMAIN procs : procs[p].name # s
        /\ mgr.startupPromises[s] = "none"
        /\ ~MapHas(mgr.runningServers, s)
        /\ \A c \in Callers : s \notin fr[c].pend /\ s \notin fr[c].okSet
        /\ \A i \in DOMAIN conns : conns[i].name # s
        /\ ~MapHas(svc.clients, s)
        /\ s \notin svc.tools

\* initializeMcp succeeded with a disabled server in the configuration,
\* the enabled one running with its client.
C14_Witness ==
    \E c \in Callers :
        /\ Disabled # {}
        /\ fr[c].pc = "idle" /\ fr[c].op = "initializeMcp" /\ fr[c].res = "ok"
        /\ fr[c].ran /\ svc.initialized
        /\ mgr.runningServers # <<>> /\ svc.clients # <<>>

\* C15: startAllServers is failure-isolated: while a caller waits for it, no
\* start attempt of one server has ended the process in which the attempts
\* of the others run, so that the call can still return its map of outcomes.
C15_StartAllIsolated ==
    \A c \in Callers : fr[c].pc = "im_startAll" => ~Crashed(procs) /\ ~exited

\* C16: startServer is memoized: a caller that issues startServer(s) while a
\* start of s is in flight waits for that start, to get the outcome it will
\* decide; it is given no answer of its own before the start has finished.
C16_StartMemoized ==
    [][\A c \in Callers :
        /\ fr'[c].srv # fr[c].srv /\ fr'[c].srv # NoName
        /\ mgr.startupPromises[fr'[c].srv] # "none"
        => fr'[c].pc = "is_start" /\ fr'[c].started = "pending"]_vars

\* C17: stopping a process-backed server: its name leaves the running set
\* only when its process has exited (no process that is still alive, or
\* killed and not yet gone, is left behind by the removal).
C17_StopAwaitsExit ==
    [][\A s \in Names :
        /\ MapHas(mgr.runningServers, s)
        /\ MapGet(mgr.runningServers, s) # 0
        /\ ~MapHas(mgr'.runningServers, s)
        => procs'[MapGet(mgr.runningServers, s)].st \notin {"alive", "killed"}]_vars

\* The http servers whose health endpoint never answers OK (Scenario B).
NeverHealthy ==
    {s \in CfgNames(mgr.config) :
        /\ mgr.config[CfgPos(mgr.config, s)].mode = "http"
        /\ world.env[s] = "badCommand"}

\* C18 (Scenario B): when the start of an http server whose health endpoint
\* never answers OK finishes, every caller waiting for it gets failure, the
\* name is not in the running set, and no process of the server is left
\* that was not killed.
C18_ScenarioB ==
    [][\A s \in NeverHealthy :
        mgr.startupPromises[s] # "none" /\ mgr'.startupPromises[s] = "none"
        => /\ ~MapHas(mgr'.runningServers, s)
           /\ \A p \in DOMAIN procs : procs'[p].name = s => procs'[p].st = "killed"
           /\ \A c \in Callers :
                /\ s \in fr[c].pend => s \notin fr'[c].okSet
                /\ fr[c].pc = "is_start" /\ fr[c].srv = s
                    => fr'[c].started = "no"]_vars

\* C19 (Scenario D): once the stream of a ready sse server has dropped and
\* the reconnection has failed for good, 3 reconnect attempts were made and
\* the server is no longer in the running set; a getTools() that returns
\* from then on holds none of its tools.
C19_ScenarioD ==
    /\ [](\A s \in Names :
            mgr.streams[s].st \in {"lost", "removed"} /\ mgr.startupPromises[s] = "none"
            => /\ mgr.streams[s].reconnectAttempt = maxReconnectAttempts
               /\ ~MapHas(mgr.runningServers, s))
    /\ [][\A s \in Names, c \in Callers :
            /\ mgr.streams[s].st \in {"lost", "removed"}
            /\ Returns(c, "getMcpTools") \/ Returns(c, "getTools")
            /\ fr'[c].arg = NoName
            => \A e \in fr'[c].ret : e.srv # s]_vars

\* The start of server s that is in flight has a wait that can end: its
\* timer can fire or its request can be answered.
StartCanSettle(s) ==
    ENABLED (\/ StdioSettled(s) \/ HttpPortProbed(s) \/ HttpPolled(s)
             \/ SseOpened(s) \/ HealthChecked(s))

\* C20: initialization terminates because every wait is bounded: while a
\* call of initializeMcp or initialize waits for the start of a server,
\* whatever that server does, the start can settle or the 30 s timer of the
\* caller's own race can fire (as long as the process lives and the model
\* has room for another process).
C20_InitTerminates ==
    \A c \in Callers, s \in Names :
        /\ fr[c].op \in InitOps
        /\ ~exited /\ FreeSlot(procs) # 0
        /\ \/ fr[c].pc = "im_startAll" /\ s \in fr[c].pend
           \/ fr[c].pc = "is_start" /\ fr[c].srv = s /\ fr[c].started = "pending"
        => \/ StartCanSettle(s)
           \/ fr[c].pc = "is_start" /\ MayTimeOut(s)

\* The schemas jsonSchemaToZod cannot classify.
Unclassified ==
    {S(t) : t \in {"undefined", "true", "none", "bogus", "typeList", "badRequired"}}

C22_RoundTrip ==
    /\ [](/\ Accepts(Parameters("t1"), ArgValue("x"))
          /\ ~Accepts(Parameters("t1"), ArgValue("y")))
    /\ [][\A c \in Callers :
            /\ Calls(c, "toolExecute")
            /\ ~Accepts(Parameters(fr'[c].call.tool), ArgValue(fr'[c].call.args))
            => fr'[c].sent = <<>> /\ fr'[c].pc = "idle" /\ fr'[c].res # "ok"]_vars

\* The servers of the configuration that run in the given mode.
OfMode(mode) ==
    {s \in CfgNames(mgr.config) : mgr.config[CfgPos(mgr.config, s)].mode = mode}

\* The start of s finishes in this step.
StartSettles(s) ==
    mgr.startupPromises[s] # "none" /\ mgr'.startupPromises[s] = "none"

\* Every caller waiting for the start of s gets the answer v in this step.
StartReports(s, v) ==
    \A c \in Callers :
        /\ fr[c].pc = "im_startAll" /\ s \in fr[c].pend
            => (s \in fr'[c].okSet) = v
        /\ fr[c].pc = "is_start" /\ fr[c].srv = s /\ fr[c].started = "pending"
            => fr'[c].started = (IF v THEN "yes" ELSE "no")

\* C23: when the start of an sse server finishes, then if the connection
\* timeout elapsed before the stream opened, the start leaves no open stream
\* behind, it reports failure and the server is not in the running set; and
\* if the stream opened in time, the start reports success.
C23_SseReadyOnOpen ==
    [][\A s \in OfMode("sse") :
        StartSettles(s)
        => IF mgr.startupPromises[s] = "open"
           THEN /\ StartReports(s, FALSE)
                /\ mgr'.streams[s] = mgr.streams[s]
                /\ ~MapHas(mgr'.runningServers, s)
           ELSE StartReports(s, TRUE)]_vars

\* C24: when the settle interval of a stdio server ends and the server is no
\* longer registered (its process exited during the interval), the start
\* reports failure and the name is not in the running set afterwards.
C24_StdioSettleChecksExit ==
    [][\A s \in OfMode("stdio") :
        StartSettles(s) /\ ~MapHas(mgr.runningServers, s)
        => /\ StartReports(s, FALSE)
           /\ ~MapHas(mgr'.runningServers, s)]_vars

\* C25: for an http server the port check comes before the spawn: when the
\* port is not free, the step that learns it spawns no process and does not
\* register the name, and when that start finishes it reports failure and
\* the name is not in the running set.
C25_PortCheckedFirst ==
    [][\A s \in OfMode("http") :
        /\ mgr.startupPromises[s] = "port" /\ mgr'.startupPromises[s] = "healthBusy"
            => procs' = procs /\ ~MapHas(mgr'.runningServers, s)
        /\ mgr.startupPromises[s] = "healthBusy" /\ StartSettles(s)
            => StartReports(s, FALSE) /\ ~MapHas(mgr'.runningServers, s)]_vars

\* The connect attempt caller c is waiting for settles in this step.
ConnectSettles(c) == fr[c].pc = "is_connect" /\ fr'[c] # fr[c]

\* C26: a connect attempt is one of at most 3 (the count of failed attempts
\* before it is below 3).  When it succeeds the client enters the table and
\* the caller goes on to tools/list with no further attempt.  When it fails
\* and fewer than 3 attempts were made, the caller waits the fixed delay and
\* tries again with the same client; when it was the third, the caller gives
\* up at once, with no delay, and the client is not in the table.  The delay
\* is entered only from a failed attempt.  Every client in the table has
\* connected.
C26_ConnectRetry ==
    /\ [](\A s \in Names :
            MapHas(svc.clients, s) => conns[MapGet(svc.clients, s)].st # "new")
    /\ [][\A c \in Callers :
            /\ ConnectSettles(c) =>
                LET i == fr[c].cli
                    s == fr[c].srv
                IN  /\ fr[c].retry < maxRetries
                    /\ conns[i].st = "new"
                    /\ IF conns'[i].st = "open"
                       THEN /\ MapHas(svc'.clients, s)
                            /\ MapGet(svc'.clients, s) = i
                            /\ fr'[c].pc = "is_tools" /\ fr'[c].srv = s
                       ELSE /\ conns'[i].st \in {"new", "free"}
                            /\ ~(MapHas(svc'.clients, s) /\ MapGet(svc'.clients, s) = i)
                            /\ IF fr[c].retry + 1 < maxRetries
                               THEN /\ fr'[c].pc = "is_connWait"
                                    /\ fr'[c].retry = fr[c].retry + 1
                                    /\ fr'[c].srv = s /\ fr'[c].cli = i
                               ELSE ~(fr'[c].pc \in {"is_connect", "is_connWait"}
                                      /\ fr'[c].cli = i)
            /\ fr'[c].pc = "is_connWait" /\ fr[c].pc # "is_connWait"
                => ConnectSettles(c) /\ conns'[fr[c].cli].st = "new"
            /\ fr[c].pc = "is_connWait" /\ fr'[c] # fr[c]
                => fr'[c] = [fr[c] EXCEPT !.pc = "is_connect"]]_vars

\* The third connect attempt to a server has failed and the caller is
\* closing the clients of the other servers before it reports the failure.
C26_Witness ==
    \E c \in Callers : fr[c].pc = "cl_close" /\ fr[c].clErr = "connectFailed"

\* The tools/list request caller c is waiting for settles in this step.
ToolsSettle(c) == fr[c].pc = "is_tools" /\ fr'[c] # fr[c]

\* C27: a tools/list request is one of at most 3 (the count of failed
\* requests before it is below 3), and it ends in one of three ways.  It
\* failed and fewer than 3 were made: nothing is registered, the caller
\* waits the fixed delay and asks again.  It failed and was the third: the
\* caller gives up with the tools/list error.  It succeeded: the server's
\* tools are registered and the caller asks no more.  The delay is entered
\* only from a failed request and leads to the next request.
C27_ToolsRetry ==
    [][\A c \in Callers :
        /\ ToolsSettle(c) =>
            LET s == fr[c].srv
                r == fr[c].retry
            IN  /\ r < maxToolRetries
                /\ \/ /\ fr'[c].pc = "is_toolsWait"
                      /\ r + 1 < maxToolRetries
                      /\ fr'[c] = [fr[c] EXCEPT !.pc = "is_toolsWait", !.retry = r + 1]
                      /\ svc'.tools = svc.tools
                   \/ /\ r + 1 = maxToolRetries
                      /\ \/ fr'[c].clErr = "toolsFailed"
                         \/ s \in fr'[c].errs \ fr[c].errs
                   \/ /\ s \in svc'.tools
                      /\ fr[c].isRet = "init" => s \in fr'[c].oks
                      /\ ~(fr'[c].srv = s /\ fr'[c].pc \in {"is_tools", "is_toolsWait"})
        /\ fr'[c].pc = "is_toolsWait" /\ fr[c].pc # "is_toolsWait"
            => ToolsSettle(c)
        /\ fr[c].pc = "is_toolsWait" /\ fr'[c] # fr[c]
            => fr'[c] = [fr[c] EXCEPT !.pc = "is_tools"]]_vars

\* The third tools/list request to a server has failed and the caller is
\* closing the clients before it reports the failure.
C27_Witness ==
    \E c \in Callers : fr[c].pc = "cl_close" /\ fr[c].clErr = "toolsFailed"

\* Caller c has, in this step, got past the start of a server inside
\* initializeServer and is at the client step for it.
PastStart(c) ==
    /\ fr'[c].pc \in {"is_connect", "is_tools"}
    /\ ~(/\ fr[c].pc \in {"is_connect", "is_connWait", "is_tools", "is_toolsWait"}
         /\ fr[c].srv = fr'[c].srv)

\* C28: when initializeServer reaches its client step for a server that has
\* a client in the table, it goes straight to tools/list with that client
\* and no new client is created; and the table never holds two entries for
\* one server name.
C28_ClientReused ==
    /\ [](\A s \in Names :
            Cardinality({i \in 1..Len(svc.clients) : svc.clients[i].k = s}) <= 1)
    /\ [][\A c \in Callers :
            PastStart(c) /\ MapHas(svc'.clients, fr'[c].srv)
            => /\ fr'[c].pc = "is_tools"
               /\ fr'[c].cli = MapGet(svc'.clients, fr'[c].srv)
               /\ \A i \in DOMAIN conns : conns'[i].st = "new" => conns[i].st = "new"]_vars

\* Two callers are asking the same connected client of a server for its
\* catalogue: each client is created by one caller, so one of the two found
\* it in the table and took it from there.
C28_Witness ==
    \E c, d \in Callers :
        /\ c # d
        /\ fr[c].pc = "is_tools" /\ fr[d].pc = "is_tools"
        /\ fr[c].srv = fr[d].srv
        /\ MapHas(svc.clients, fr[c].srv)
        /\ fr[c].cli = MapGet(svc.clients, fr[c].srv)
        /\ fr[d].cli = fr[c].cli
        /\ conns[fr[c].cli].st = "open"

\* C29: inside initializeServer the steps come in order: a caller is at the
\* connect step only after the start answered success, and at the
\* tools/list step only after that and with a client that has connected;
\* and a server's tools enter the tool table only in a step in which a
\* tools/list request for that server settles.
C29_StartupSequential ==
    /\ [](\A c \in Callers :
            /\ fr[c].pc \in {"is_connect", "is_connWait", "is_tools", "is_toolsWait"}
                => fr[c].started = "yes"
            /\ fr[c].pc \in {"is_connect", "is_connWait"}
                => conns[fr[c].cli].st = "new"
            /\ fr[c].pc \in {"is_tools", "is_toolsWait"}
                => /\ conns[fr[c].cli].name = fr[c].srv
                   /\ conns[fr[c].cli].st \in {"open", "closed"})
    /\ [][\A s \in Names :
            s \notin svc.tools /\ s \in svc'.tools
            => \E c \in Callers : ToolsSettle(c) /\ fr[c].srv = s]_vars

\* An initialization has returned success with the tools of a server
\* registered.
C29_Witness ==
    \E c \in Callers :
        /\ fr[c].pc = "idle" /\ fr[c].op \in InitOps /\ fr[c].res = "ok"
        /\ svc.tools # {}

\* C30: every server that has an entry in the tool table has a client in
\* the client table, and that client is connected; and a step that removes
\* a server's client from the table removes the server's tools.
C30_ToolsHaveClient ==
    /\ [](\A s \in svc.tools :
            /\ MapHas(svc.clients, s)
            /\ conns[MapGet(svc.clients, s)].st = "open")
    /\ [][\A s \in Names :
            MapHas(svc.clients, s) /\ ~MapHas(svc'.clients, s)
            => s \notin svc'.tools]_vars

\* What an object schema asks of an argument object, property by declared
\* property: an omitted property must not be in the required list, a given
\* one must satisfy the validator of its own sub-schema.  Keys that are not
\* declared are not looked at.
Expected(schema, value) ==
    \A i \in 1..Len(schema.properties) :
        LET key == schema.properties[i].key
            given == Field(value, key)
        IN  IF given.j = "undefined"
            THEN key \notin schema.required
            ELSE Accepts(jsonSchemaToZod(schema.properties[i].value), given)

\* C31: the validator compiled from an object schema accepts an argument
\* object exactly when every declared property in the required list is
\* given, and every declared property that is given satisfies its own
\* sub-schema, whatever the names of the properties; extra properties do not
\* matter.
C31_RequiredOptional ==
    bridge.pc = "parsed" /\ bridge.schema.t = "object" /\ bridge.args.j = "object"
    => bridge.ok = Expected(bridge.schema, bridge.args)

\* The branches of a oneOf/anyOf schema that are schemas, not booleans.
SchemaBranches(schema) == SelectSeq(schema.of, LAMBDA b : b.t # "true")

\* C32 as stated: the validator compiled from a oneOf/anyOf schema accepts
\* what the validator of its single branch accepts when it has one branch,
\* what the validator of any of its branches accepts when it has several,
\* and everything when none of its branches is a schema.
C32_AsStated ==
    bridge.pc = "parsed" /\ bridge.schema.t = "oneOf"
    => LET branches == bridge.schema.of
       IN  /\ Len(branches) = 1 =>
                bridge.ok = Accepts(jsonSchemaToZod(branches[1]), bridge.args)
           /\ Len(branches) > 1 =>
                bridge.ok = (\E i \in 1..Len(branches) :
                                Accepts(jsonSchemaToZod(branches[i]), bridge.args))
           /\ Len(SchemaBranches(bridge.schema)) = 0 => bridge.ok

\* C32: a oneOf/anyOf schema compiles from its branches that are schemas,
\* boolean branches being skipped: with one such branch to the validator of
\* that branch; with several to a union over them, which accepts a value
\* exactly when one of their validators does; with none to the validator of
\* the schema's own type when it declares one, and to the accept-anything
\* validator otherwise.
C32_OneOfCompiles ==
    bridge.pc \in {"compiled", "parsed"} /\ bridge.schema.t = "oneOf"
    => LET branches == SchemaBranches(bridge.schema)
           zs == MapCompile(branches, 1)
       IN  /\ Len(branches) = 1 => bridge.zod = jsonSchemaToZod(branches[1])
           /\ Len(branches) > 1 =>
                /\ bridge.zod.v = "union" /\ bridge.zod.of = zs
                /\ bridge.pc = "parsed" =>
                    bridge.ok = (\E i \in 1..Len(zs) : Accepts(zs[i], bridge.args))
           /\ Len(branches) = 0 =>
                bridge.zod = IF bridge.schema.base.t = "none" THEN ZAny
                             ELSE jsonSchemaToZod(bridge.schema.base)

\* A oneOf of a string and a number schema was compiled, and its validator
\* has accepted the string "x".
C32_Witness ==
    /\ bridge.pc = "parsed"
    /\ bridge.schema = OneOf(<<S("string"), S("number")>>, S("none"))
    /\ bridge.zod = ZUnion(<<Z("string"), Z("number")>>)
    /\ bridge.args = JString("x")
    /\ bridge.ok

\* The start of s finishes in this step and a caller waiting for it is told
\* that it failed.
StartFailed(s) ==
    /\ StartSettles(s)
    /\ \E c \in Callers :
        \/ fr[c].pc = "im_startAll" /\ s \in fr[c].pend /\ s \notin fr'[c].okSet
        \/ /\ fr[c].pc = "is_start" /\ fr[c].srv = s /\ fr[c].started = "pending"
           /\ fr'[c].started = "no"

\* C33: when the start of a server, of any mode, resolves with failure, the
\* server is not in the running set at that moment.
C33_FailedStartNoHandle ==
    [][\A s \in Names : StartFailed(s) => ~MapHas(mgr'.runningServers, s)]_vars

\* C34: every process the supervisor spawned that has not exited is the
\* process of the running-set entry of its server.
C34_NoOrphanProcess ==
    \A p \in DOMAIN procs :
        procs[p].st = "alive"
        => /\ MapHas(mgr.runningServers, procs[p].name)
           /\ MapGet(mgr.runningServers, procs[p].name) = p

\* C35: when the exit of a stopped (killed) process of a server is reported
\* while a newer process of the same server is alive and the server's later
\* start has finished with success, the server stays in the running set.
C35_LateCloseKeepsEntry ==
    [][\A p \in DOMAIN procs :
        LET s == procs[p].name
        IN  /\ procs[p].st = "killed" /\ procs'[p].st = "free"
            /\ \E q \in DOMAIN procs \ {p} :
                    procs[q].name = s /\ procs[q].st = "alive"
            /\ mgr.startupPromises[s] = "none"
            /\ MapHas(mgr.runningServers, s)
            /\ MapGet(mgr.runningServers, s) = 0
            => MapHas(mgr'.runningServers, s)]_vars

\* C36: once the stream of an sse server has opened, no step closes it but
\* its error handler: in particular the connection timer, when it fires
\* later, leaves the stream open and the running set as it is.
C36_TimeoutAfterOpen ==
    [][\A s \in Names :
        mgr.streams[s].st = "open" /\ mgr'.streams[s].st # "open"
        => mgr'.streams[s].st \in {"wait", "removed"}]_vars

\* A cleanup, called from outside or from a failing initializeServer, is
\* under way.
InCleanup ==
    \E c \in Callers :
        \/ fr[c].pc \in {"cl_close", "cm_delay"}
        \/ fr[c].op \in {"cleanup", "cleanupMcp"} /\ fr[c].pc # "idle"

\* C37: whenever the service is initialized and no cleanup is under way,
\* some configured server has a connected client in the client table and an
\* entry in the tool table.
C37_ReadyHasClient ==
    svc.initialized /\ ~InCleanup
    => \E s \in CfgNames(mgr.config) :
        /\ MapHas(svc.clients, s)
        /\ conns[MapGet(svc.clients, s)].st = "open"
        /\ s \in svc.tools

\* The first call of caller c was a cleanup that has returned and that found
\* something to release: a running server it stopped or a client it closed.
CleanedUp(c) ==
    /\ fr[c].n = 1 /\ fr[c].op = "cleanup" /\ fr[c].pc = "idle"
    /\ fr[c].stopped # {} \/ fr[c].closed # {}

\* C38: when an initialization that was in flight while a cleanup ran (the
\* cleanup found resources only this initialization can have made)
\* returns after that cleanup, the service is not initialized and there is
\* no running server, no client and no tool set.
C38_CleanupDuringInit ==
    [][\A c, d \in Callers :
        /\ c # d
        /\ CleanedUp(c)
        /\ fr[d].n = 1
        /\ Returns(d, "initializeMcp") \/ Returns(d, "initialize")
        => /\ ~svc'.initialized
           /\ mgr'.runningServers = <<>>
           /\ svc'.clients = <<>>
           /\ svc'.tools = {}]_vars

GetOps == {"getMcpTools", "getTools"}

\* C39: a step of a getTools or getMcpTools call on an initialized service
\* leaves the service initialized, every running server in the running set,
\* every client of the client table in the table and as connected as it
\* was, and every server's tools in the tool table.
C39_GetToolsNonDestructive ==
    [][\A c \in Callers :
        /\ fr'[c].op \in GetOps /\ fr'[c] # fr[c]
        /\ fr[c].pc # "idle" => fr[c].op \in GetOps
        /\ svc.initialized
        => /\ svc'.initialized
           /\ KeySet(mgr.runningServers) \subseteq KeySet(mgr'.runningServers)
           /\ \A s \in KeySet(svc.clients) :
                /\ MapHas(svc'.clients, s)
                /\ conns'[MapGet(svc'.clients, s)].st = conns[MapGet(svc.clients, s)].st
           /\ svc.tools \subseteq svc'.tools]_vars

CleanupOps == {"cleanupMcp", "cleanup"}

\* C40: when an initializeMcp called after a cleanup has loaded its
\* configuration file, the configuration the manager holds -- the list
\* startAllServers goes through and the names getMcpTools checks a server
\* name against -- is the configuration just loaded.
C40_ReinitUsesLoadedConfig ==
    [][\A c \in Callers :
        /\ fr[c].op = "initializeMcp" /\ fr[c].pc = "im_load"
        /\ fr[c].prevOp \in CleanupOps
        /\ fr'[c].pc # "im_load"
        /\ world.valid
        => mgr'.config = loadMcpConfig(fr[c].configPath)]_vars

====
